---- MODULE Spec2Model ----
(***************************************************************************)
(* A model of the RateLimiter class (src/unnamed/part_001): multi-window   *)
(* request quotas for (apiKey, model) pairs kept in Redis counters, limit  *)
(* borrowing, freeze flags, and the key/model selection strategies.        *)
(*                                                                         *)
(* In Spec and the specifications of single components one caller is       *)
(* modelled: every public method runs to completion as one action, the     *)
(* Redis commands it issues included.  Time is the clock in seconds        *)
(* (Math.floor(Date.now() / 1000)); Tick lets it pass between two calls    *)
(* and expires the Redis keys whose TTL has run out.  SpecRace has several *)
(* callers whose calls advance one Redis round trip at a time, and in      *)
(* SpecRaceClock the clock moves between their round trips too.  SpecIndex *)
(* models the countdown limiter of src/index.js in the same way, with its  *)
(* counters (keyed by API, key, model and window) in the variable counters.*)
(***************************************************************************)
EXTENDS Integers, Sequences, FiniteSets, TLC

VARIABLES
    now,               \* Math.floor(Date.now() / 1000)
    counters,          \* Redis keys rate:<apiKey>:<model>:<window>:<ts> -> [val, exp]
    freezes,           \* Redis keys freeze:<apiKey>:<model> -> expiry time
    metrics,           \* Redis keys metric:<apiKey>:<model>:<type>:<day> -> [val, exp]
    limits,            \* this.apis[..].models[..].limits, by API name and model name
    keyStrategy,       \* this.keyStrategy
    modelStrategy,     \* this.modelStrategy
    lastKeyIndices,    \* this.lastKeyIndices   (by API name, "<api>-key")
    lastModelIndices,  \* this.lastModelIndices (by API name, "<api>-model")
    metricsEnabled,    \* this.metricsEnabled: options.enableMetrics !== false
    inflight,          \* the calls in progress, by caller: position and locals
    last               \* the call made by the last step, and what it returned

vars == <<now, counters, freezes, metrics, limits, keyStrategy, modelStrategy,
          lastKeyIndices, lastModelIndices, metricsEnabled, inflight, last>>

----------------------------------------------------------------------------
(* Bounds of the model *)

\* A call is only made while it leaves every counter at or below MaxCount.
MaxCount == 2
\* The clock stops at MaxTime.
MaxTime == 60
\* updateMetrics is only called while it leaves the metric at or below MaxMetric.
MaxMetric == 1
\* Seconds that pass in one Tick.
TickSteps == {30}
\* Durations passed to freezeModel, and the (key, model) pairs it is called for.
FreezeDurations == {60}
FreezeTargets == {<<"k1", "m1">>}
\* The (key, model, type) updateMetrics is called for.
MetricTargets == {<<"k1", "m1", "success">>}
\* The (key, model, type) updateMetrics is called for where the metrics are
\* the subject, and the (apiName, key, model) getMetrics is called for.
MetricTypeTargets ==
    {<<"k1", "m1", type>> : type \in {"success", "limit_reached", "borrowed"}}
MetricReadInputs == {<<"api1", "k1", "m1">>, <<"nope", "k1", "m1">>}
\* The number of callers whose calls are in progress at the same time.
MaxCallers == 2
\* Sizes passed to getBatch.
BatchSizes == {1, 2}
\* The window functions are called in the first MaxSpan + 1 spans of every
\* window, at these distances from the start of the span.
MaxSpan == 2
ProbeOffsets == {0 - 1, 0, 1, 45}

----------------------------------------------------------------------------
(* Configuration: the constructor's arguments *)

minute == 60
hour == 3600
day == 86400
month == 2592000
quarter == 7776000

\* this.customWindows: the built-in windows and options.customWindows.
customWindows ==
    [w \in {"minute", "hour", "day", "month", "quarter"} |->
        CASE w = "minute" -> minute
          [] w = "hour" -> hour
          [] w = "day" -> day
          [] w = "month" -> month
          [] w = "quarter" -> quarter]

\* this.apis: the config array (the limits of the models are in InitLimits).
\* The first two APIs share keys and a model name; the model of the third
\* has a limit for "week", a window that is not in customWindows.
Apis ==
    << [name |-> "api1", keys |-> <<"k1", "k2">>, models |-> <<"m1", "m2">>],
       [name |-> "api2", keys |-> <<"k1", "k2", "k3">>, models |-> <<"m1">>],
       [name |-> "api3", keys |-> <<"k1">>, models |-> <<"m3">>] >>

\* The arguments of the direct checkAndIncrement calls (getModel and getBatch
\* make the calls for the other key), and of the getModel, getBatch and
\* freezeModel calls.
CheckInputs ==
    {<<"api1", "k1", m, b>> : m \in {"m1", "m2"}, b \in BOOLEAN}
        \cup {<<"api3", "k1", "m3", FALSE>>}
GetModelInputs ==
    {<<"api1", FALSE>>, <<"api1", TRUE>>, <<"nope", FALSE>>}
GetBatchInputs ==
    {<<"api1", size>> : size \in BatchSizes} \cup {<<"nope", 1>>}
FreezeInputs ==
    {<<"api1", target[1], target[2], d>> : target \in FreezeTargets, d \in FreezeDurations}
        \cup {<<"nope", "k1", "m1", 60>>}

\* model.limits of every configured model, as constructed.
InitLimits ==
    [a \in {"api1", "api2", "api3"} |->
        CASE a = "api1" ->
                [m \in {"m1", "m2"} |->
                    IF m = "m1"
                    THEN [w \in {"minute", "quarter"} |-> 1]
                    ELSE [w \in {"day", "month"} |-> IF w = "day" THEN 1 ELSE 2]]
          [] a = "api2" -> [m \in {"m1"} |-> [w \in {"minute"} |-> 1]]
          [] a = "api3" -> [m \in {"m3"} |-> [w \in {"minute", "week"} |-> 1]]]

\* Mutant of validStrategies: one more name passes the validation.
validStrategiesLax == {"ascending", "random", "round-robin", "fastest"}

\* const validStrategies of the constructor and of the two setters.
validStrategies == {"ascending", "random", "round-robin"}

\* The names passed to setKeyStrategy and setModelStrategy.
StrategyInputs == validStrategies \cup {"fastest"}

\* The (apiName, type) getOrderedItems is called for, with the keys or the
\* models of that API as items.
OrderInputs == {<<a, type>> : a \in {"api1", "api2"}, type \in {"key", "model"}}

----------------------------------------------------------------------------
(* Redis: a key-value store with expiry.  An entry with exp = 0 has no TTL. *)

Range(s) == {s[i] : i \in DOMAIN s}

\* INCR key: a missing key counts as 0 and is created without a TTL.
Incr(store, k) ==
    IF k \in DOMAIN store
    THEN [store EXCEPT ![k].val = @ + 1]
    ELSE store @@ (k :> [val |-> 1, exp |-> 0])

\* Mutant of Decr: the counter is reset to 0 instead of decremented.
DecrToZero(store, k) ==
    IF k \in DOMAIN store
    THEN [store EXCEPT ![k].val = 0]
    ELSE store @@ (k :> [val |-> 0, exp |-> 0])

\* DECR key: a missing key counts as 0 and is created without a TTL.
Decr(store, k) ==
    IF k \in DOMAIN store
    THEN [store EXCEPT ![k].val = @ - 1]
    ELSE store @@ (k :> [val |-> 0 - 1, exp |-> 0])

\* EXPIRE key seconds, issued at time t: a non-positive TTL deletes the key.
Expire(store, k, seconds, t) ==
    IF k \notin DOMAIN store THEN store
    ELSE IF seconds <= 0 THEN [x \in DOMAIN store \ {k} |-> store[x]]
    ELSE [store EXCEPT ![k].exp = t + seconds]

\* Mutant of SetEx: the later of the expiry in place and the new one is kept.
SetExLatest(store, k, seconds, t) ==
    [x \in DOMAIN store \cup {k} |->
        IF x = k /\ (k \notin DOMAIN store \/ store[k] < t + seconds) THEN t + seconds
        ELSE store[x]]

\* Mutant of SetEx: SET with KEEPTTL, a key that exists keeps its expiry.
SetKeepTtl(store, k, seconds, t) ==
    [x \in DOMAIN store \cup {k} |->
        IF x = k /\ k \notin DOMAIN store THEN t + seconds ELSE store[x]]

\* SET key '1' EX seconds, issued at time t, in a store of flags (a flag is
\* its expiry): the key expires seconds after this call.
SetEx(store, k, seconds, t) ==
    [x \in DOMAIN store \cup {k} |-> IF x = k THEN t + seconds ELSE store[x]]

\* The keys of a store that are still there at time t.
Unexpired(store, t) ==
    [k \in {x \in DOMAIN store : store[x].exp = 0 \/ store[x].exp > t} |-> store[k]]

----------------------------------------------------------------------------
(* Window keyspace *)

\* getWindowTimestamp(window) at time t; defined when the window is valid.
WindowValid(window) ==
    window \in DOMAIN customWindows /\ customWindows[window] # 0

\* Mutant of getWindowTimestamp: the nearest window boundary.
getWindowTimestampNearest(window, t) ==
    ((t + (customWindows[window] \div 2)) \div customWindows[window])
        * customWindows[window]

getWindowTimestamp(window, t) == t - (t % customWindows[window])

\* Mutant of getWindowExpiry: the last second of the window counts as 0.
getWindowExpiryShort(window, t) ==
    getWindowTimestamp(window, t) + customWindows[window] - 1 - t

getWindowExpiry(window, t) ==
    getWindowTimestamp(window, t) + customWindows[window] - t

\* Mutant of getKey: the key does not name the time bucket.
getKeyNoBucket(apiKey, modelName, window, t) ==
    <<apiKey, modelName, window, 0>>

\* getKey(apiKey, modelName, window): the "rate:" prefix is the variable.
getKey(apiKey, modelName, window, t) ==
    <<apiKey, modelName, window, getWindowTimestamp(window, t)>>

\* findApi(apiName): the first API of that name; <<>> stands for the throw.
findApi(apiName) ==
    LET hits == {i \in DOMAIN Apis : Apis[i].name = apiName}
    IN  IF hits = {} THEN <<>>
        ELSE << Apis[CHOOSE i \in hits : \A j \in hits : i <= j] >>

\* Mutant of findModel: an unknown name finds the first model.
findModelFirst(api, modelName) ==
    IF modelName \in Range(api.models) THEN << modelName >> ELSE << api.models[1] >>

\* api.models.find((m) => m.name === modelName): <<>> stands for undefined.
findModel(api, modelName) ==
    IF modelName \in Range(api.models) THEN << modelName >> ELSE <<>>

----------------------------------------------------------------------------
(* Registry: updateLimits(apiName, modelName, newLimits) *)

\* The JavaScript values passed as limits: numbers (NaN among them) and strings.
Num(n) == [type |-> "number", nan |-> FALSE, v |-> n]
NaN == [type |-> "number", nan |-> TRUE, v |-> 0]
Str(n) == [type |-> "string", nan |-> FALSE, v |-> n]

\* One entry of Object.entries(newLimits).
Entry(window, limit) == [window |-> window, limit |-> limit]

\* !this.customWindows[window]
windowRejected(window) ==
    window \notin DOMAIN customWindows \/ customWindows[window] = 0

\* typeof limit !== 'number' || limit < 0   (NaN < 0 is false)
limitRejected(limit) ==
    limit.type # "number" \/ (~limit.nan /\ limit.v < 0)

\* The validation loop: the error of the first entry that fails, "" if none.
RECURSIVE validateLimits(_, _)
validateLimits(newLimits, i) ==
    IF i > Len(newLimits) THEN ""
    ELSE IF windowRejected(newLimits[i].window) THEN "Invalid window"
    ELSE IF limitRejected(newLimits[i].limit) THEN "Invalid limit"
    ELSE validateLimits(newLimits, i + 1)

\* The limit as the model's limits map holds it.
storedLimit(limit) == IF limit.nan THEN "NaN" ELSE limit.v

\* Mutant of mergeLimits: the new map replaces the model's limits.
mergeLimitsReplace(lim, newLimits) ==
    [w \in {newLimits[i].window : i \in DOMAIN newLimits} |->
        storedLimit(newLimits[CHOOSE i \in DOMAIN newLimits :
                                 newLimits[i].window = w].limit)]

\* Mutant of mergeLimits: the model keeps the limits it had.
mergeLimitsDropped(lim, newLimits) == lim

\* { ...model.limits, ...newLimits }
mergeLimits(lim, newLimits) ==
    [w \in DOMAIN lim \cup {newLimits[i].window : i \in DOMAIN newLimits} |->
        IF \E i \in DOMAIN newLimits : newLimits[i].window = w
        THEN storedLimit(newLimits[CHOOSE i \in DOMAIN newLimits :
                                     newLimits[i].window = w].limit)
        ELSE lim[w]]

\* The method once the model is found: validation of every entry, then the
\* merge.
updateLimitsChecked(lim, newLimits) ==
    IF validateLimits(newLimits, 1) # ""
    THEN [limits |-> lim, error |-> validateLimits(newLimits, 1)]
    ELSE [limits |-> mergeLimits(lim, newLimits), error |-> ""]

\* The whole method: the limits of all models it leaves and the error it
\* throws ("" when it returns).
updateLimits(lims, apiName, modelName, newLimits) ==
    IF findApi(apiName) = <<>> THEN [limits |-> lims, error |-> "API not found"]
    ELSE IF findModel(findApi(apiName)[1], modelName) = <<>>
    THEN [limits |-> lims, error |-> "Model not found"]
    ELSE LET model == findModel(findApi(apiName)[1], modelName)[1]
             r == updateLimitsChecked(lims[apiName][model], newLimits)
         IN  [limits |-> [lims EXCEPT ![apiName][model] = r.limits],
              error |-> r.error]

\* The arguments of the updateLimits calls: partial updates that pass
\* validation (one that raises a limit, two that lower a limit and raise it
\* again), updates with an entry that must not pass before or after entries
\* that do, and unknown API and model names.
LimitInputs ==
    { <<"api1", "m1", << Entry("minute", Num(2)) >> >>,
      <<"api1", "m2", << Entry("month", Num(1)) >> >>,
      <<"api1", "m2", << Entry("month", Num(2)) >> >>,
      <<"api2", "m1", << Entry("minute", Num(0)), Entry("day", Num(2)) >> >>,
      <<"api2", "m1", << Entry("minute", Num(2)), Entry("week", Num(1)) >> >>,
      <<"api2", "m1", << Entry("week", Num(1)), Entry("minute", Num(2)) >> >>,
      <<"api2", "m1", << Entry("minute", Num(0 - 1)), Entry("day", Num(1)) >> >>,
      <<"api2", "m1", << Entry("day", Num(1)), Entry("minute", Str(2)) >> >>,
      <<"api2", "m1", << Entry("hour", NaN) >> >>,
      <<"nope", "m1", << Entry("minute", Num(2)) >> >>,
      <<"api2", "m2", << Entry("minute", Num(2)) >> >> }

----------------------------------------------------------------------------
(* Freeze guard *)

\* Mutant of isFrozen: the freeze key is built with its parts swapped.
isFrozenSwapped(frz, apiKey, modelName) == <<modelName, apiKey>> \in DOMAIN frz

\* isFrozen(apiKey, modelName): GET freeze:<apiKey>:<modelName> is not null.
isFrozen(frz, apiKey, modelName) == <<apiKey, modelName>> \in DOMAIN frz

----------------------------------------------------------------------------
(* Limit evaluator: checkAndIncrement(apiKey, model, allowBorrowing) *)

\* The first pipeline: INCR and EXPIRE of the counter of every window of
\* model.limits, executed in one round trip at time t.
RECURSIVE pipelineIncr(_, _, _, _, _)
pipelineIncr(ctrs, windows, apiKey, modelName, t) ==
    IF windows = {} THEN ctrs
    ELSE LET w == CHOOSE x \in windows : TRUE
             key == getKey(apiKey, modelName, w, t)
         IN  pipelineIncr(Expire(Incr(ctrs, key), key, getWindowExpiry(w, t), t),
                          windows \ {w}, apiKey, modelName, t)

\* The rollback pipeline: DECR of the counter of every window of model.limits.
RECURSIVE pipelineDecr(_, _, _, _, _)
pipelineDecr(ctrs, windows, apiKey, modelName, t) ==
    IF windows = {} THEN ctrs
    ELSE LET w == CHOOSE x \in windows : TRUE
         IN  pipelineDecr(Decr(ctrs, getKey(apiKey, modelName, w, t)),
                          windows \ {w}, apiKey, modelName, t)

Max(a, b) == IF a >= b THEN a ELSE b

\* usage[window] as built from the INCR results.
usageOf(ctrs, lim, apiKey, modelName, t) ==
    [w \in DOMAIN lim |->
        [used |-> ctrs[getKey(apiKey, modelName, w, t)].val,
         remaining |-> Max(0, lim[w] - ctrs[getKey(apiKey, modelName, w, t)].val),
         limit |-> lim[w],
         reset |-> getWindowExpiry(w, t)]]

\* The window's count is over its limit and the overshoot is borrowed.
borrows(window, count, limit, allowBorrowing) ==
    count > limit /\ allowBorrowing /\ window # "month"

\* Mutant of rejects: a count that reaches the limit is rejected already.
rejectsAtLimit(window, count, limit, allowBorrowing) ==
    count >= limit /\ ~(allowBorrowing /\ window # "month")

\* Mutant of rejects: a count one over the limit is still within it.
rejectsPastLimit(window, count, limit, allowBorrowing) ==
    count > limit + 1 /\ ~(allowBorrowing /\ window # "month")

\* Mutant of rejects: the overshoot of a borrowed window rejects the attempt.
rejectsBorrowed(window, count, limit, allowBorrowing) ==
    count > limit

\* The window's count is over its limit and the attempt is rejected for it.
rejects(window, count, limit, allowBorrowing) ==
    count > limit /\ ~(allowBorrowing /\ window # "month")

\* The loop over the results of the pipeline: the returned value.
processResults(usage, lim, allowBorrowing) ==
    [isWithinLimits |->
        \A w \in DOMAIN lim : ~rejects(w, usage[w].used, lim[w], allowBorrowing),
     usage |-> usage,
     borrowed |->
        \E w \in DOMAIN lim : borrows(w, usage[w].used, lim[w], allowBorrowing)]

\* Mutant of rollback: only the windows that are over their limit are
\* decremented.
rollbackOverLimitOnly(incremented, res, lim, apiKey, modelName, t) ==
    IF res.isWithinLimits THEN incremented
    ELSE pipelineDecr(incremented, {w \in DOMAIN lim : res.usage[w].used > lim[w]},
                      apiKey, modelName, t)

\* The counters after the rollback, which runs when the attempt is rejected.
rollback(incremented, res, lim, apiKey, modelName, t) ==
    IF res.isWithinLimits THEN incremented
    ELSE pipelineDecr(incremented, DOMAIN lim, apiKey, modelName, t)

\* What the frozen branch returns: { isWithinLimits: false, usage: {} }.
frozenResult == [isWithinLimits |-> FALSE, usage |-> <<>>, borrowed |-> FALSE]

\* The method after the first pipeline has run and left the counters
\* incremented.
afterIncrement(incremented, res, lim, apiKey, modelName, t) ==
    [counters |-> rollback(incremented, res, lim, apiKey, modelName, t),
     res |-> res, frozen |-> FALSE, threw |-> FALSE]

evaluate(incremented, lim, apiKey, modelName, allowBorrowing, t) ==
    afterIncrement(incremented,
                   processResults(usageOf(incremented, lim, apiKey, modelName, t),
                                  lim, allowBorrowing),
                   lim, apiKey, modelName, t)

\* Mutant of abandonedPipeline: the INCR and EXPIRE of the windows that are
\* registered are executed although a later getKey throws.
abandonedPipelineSent(ctrs, lim, apiKey, modelName, t) ==
    pipelineIncr(ctrs, {w \in DOMAIN lim : WindowValid(w)}, apiKey, modelName, t)

\* The counters when getKey throws in the set-up loop: the commands queued
\* so far are never executed.
abandonedPipeline(ctrs, lim, apiKey, modelName, t) == ctrs

\* The whole method, run at time t with no other caller: the counters it
\* leaves, the value it returns, whether it took the frozen branch and
\* whether it threw (an invalid window in model.limits).
checkAndIncrement(ctrs, frz, lim, apiKey, modelName, allowBorrowing, t) ==
    IF isFrozen(frz, apiKey, modelName)
    THEN [counters |-> ctrs, res |-> frozenResult, frozen |-> TRUE, threw |-> FALSE]
    ELSE IF \E w \in DOMAIN lim : ~WindowValid(w)
    THEN [counters |-> abandonedPipeline(ctrs, lim, apiKey, modelName, t),
          res |-> frozenResult, frozen |-> FALSE, threw |-> TRUE]
    ELSE evaluate(pipelineIncr(ctrs, DOMAIN lim, apiKey, modelName, t),
                  lim, apiKey, modelName, allowBorrowing, t)

----------------------------------------------------------------------------
(* Metrics recorder *)

\* getMetricKey(apiKey, modelName, type): the "metric:" prefix is the variable.
getMetricKey(apiKey, modelName, type, t) ==
    <<apiKey, modelName, type, getWindowTimestamp("day", t)>>

\* Mutant of updateMetrics: the counter is written whatever metricsEnabled is.
updateMetricsAlways(mtr, apiKey, modelName, type, t) ==
    Expire(Incr(mtr, getMetricKey(apiKey, modelName, type, t)),
           getMetricKey(apiKey, modelName, type, t),
           getWindowExpiry("day", t), t)

\* updateMetrics(apiKey, modelName, type) at time t: the metrics it leaves.
updateMetrics(mtr, apiKey, modelName, type, t) ==
    IF ~metricsEnabled THEN mtr
    ELSE Expire(Incr(mtr, getMetricKey(apiKey, modelName, type, t)),
                getMetricKey(apiKey, modelName, type, t),
                getWindowExpiry("day", t), t)

\* GET key: the reply is <<>> for nil, else the value as Redis holds it.
Get(store, k) == IF k \in DOMAIN store THEN << store[k].val >> ELSE <<>>

\* parseInt(reply) || 0: NaN (a nil reply) and 0 both give 0.
parseIntOrZero(reply) ==
    IF reply = <<>> THEN 0 ELSE IF reply[1] = 0 THEN 0 ELSE reply[1]

\* getMetrics(apiName, apiKey, modelName) at time t: whether it threw,
\* whether it returned null, and the counts it returned otherwise.
getMetrics(mtr, apiName, apiKey, modelName, t) ==
    IF findApi(apiName) = <<>>
    THEN [threw |-> TRUE, isNull |-> FALSE, counts |-> <<>>]
    ELSE IF ~metricsEnabled
    THEN [threw |-> FALSE, isNull |-> TRUE, counts |-> <<>>]
    ELSE [threw |-> FALSE, isNull |-> FALSE,
          counts |->
            [success |->
                parseIntOrZero(Get(mtr, getMetricKey(apiKey, modelName, "success", t))),
             limitReached |->
                parseIntOrZero(Get(mtr, getMetricKey(apiKey, modelName,
                                                     "limit_reached", t))),
             borrowed |->
                parseIntOrZero(Get(mtr, getMetricKey(apiKey, modelName, "borrowed", t)))]]

\* Mutant of pipelineGet: the keys are read with GETDEL.
pipelineGetDel(store, keys) == [k \in DOMAIN store \ keys |-> store[k]]

\* The store after a pipeline of GET commands for the keys.
pipelineGet(store, keys) == store

\* usage[window] of getUsageStats; null is written 0 - 1.
currentUsageOf(ctrs, lim, apiKey, modelName, w, t) ==
    LET count == parseIntOrZero(Get(ctrs, getKey(apiKey, modelName, w, t)))
        configured == w \in DOMAIN lim /\ lim[w] # 0
    IN  [used |-> count,
         remaining |-> IF configured THEN Max(0, lim[w] - count) ELSE 0 - 1,
         limit |-> IF configured THEN lim[w] ELSE 0 - 1,
         reset |-> getWindowExpiry(w, t)]

\* getUsageStats(apiName, apiKey, modelName) at time t: whether it threw,
\* the currentUsage and metrics it returned (metrics <<>>: null), and the
\* counters after its pipeline.
getUsageStats(ctrs, mtr, lims, apiName, apiKey, modelName, t) ==
    IF findApi(apiName) = <<>>
    THEN [threw |-> TRUE, currentUsage |-> <<>>, metrics |-> <<>>, counters |-> ctrs]
    ELSE IF findModel(findApi(apiName)[1], modelName) = <<>>
    THEN [threw |-> TRUE, currentUsage |-> <<>>, metrics |-> <<>>, counters |-> ctrs]
    ELSE [threw |-> FALSE,
          currentUsage |->
              [w \in DOMAIN customWindows |->
                  currentUsageOf(ctrs, lims[apiName][modelName], apiKey, modelName, w, t)],
          metrics |-> IF metricsEnabled
                      THEN getMetrics(mtr, apiName, apiKey, modelName, t).counts
                      ELSE <<>>,
          counters |-> pipelineGet(ctrs, {getKey(apiKey, modelName, w, t)
                                             : w \in DOMAIN customWindows})]

----------------------------------------------------------------------------
(* Selection strategy *)

\* Mutant of getNextRoundRobinIndex: the rotation restarts at the first item.
getNextRoundRobinIndexRestart(currentIndex, length) == 0

\* Mutant of getNextRoundRobinIndex: the index does not wrap.
getNextRoundRobinIndexNoWrap(currentIndex, length) == currentIndex + 1

getNextRoundRobinIndex(currentIndex, length) == (currentIndex + 1) % length

\* Every order a Fisher-Yates shuffle of items can produce.
Shuffles(items) ==
    LET n == Len(items)
        perms == {f \in [1..n -> 1..n] : \A i, j \in 1..n : f[i] = f[j] => i = j}
    IN  {[i \in 1..n |-> items[f[i]]] : f \in perms}

\* items.slice(from) followed by items.slice(0, from), from counted from 0.
Rotate(items, from) ==
    SubSeq(items, from + 1, Len(items)) \o SubSeq(items, 1, from)

\* Mutant of getOrderedItems: the cursor advances under every strategy.
getOrderedItemsAlwaysAdvance(items, apiName, strategy, indices) ==
    LET current == IF apiName \in DOMAIN indices THEN indices[apiName] ELSE 0 - 1
        next == getNextRoundRobinIndex(current, Len(items))
        advanced == [a \in DOMAIN indices \cup {apiName} |->
                        IF a = apiName THEN next ELSE indices[a]]
    IN  CASE strategy = "random" ->
                {[ordered |-> o, indices |-> advanced] : o \in Shuffles(items)}
          [] strategy = "round-robin" ->
                {[ordered |-> Rotate(items, next), indices |-> advanced]}
          [] OTHER ->
                {[ordered |-> items, indices |-> advanced]}

\* getOrderedItems(items, apiName, type), with strategy and indices those of
\* the type: every (ordered list, indices afterwards) it can produce.
getOrderedItems(items, apiName, strategy, indices) ==
    CASE strategy = "ascending" ->
            {[ordered |-> items, indices |-> indices]}
      [] strategy = "random" ->
            {[ordered |-> o, indices |-> indices] : o \in Shuffles(items)}
      [] strategy = "round-robin" ->
            LET current == IF apiName \in DOMAIN indices THEN indices[apiName] ELSE 0 - 1
                next == getNextRoundRobinIndex(current, Len(items))
            IN  {[ordered |-> Rotate(items, next),
                  indices |-> [a \in DOMAIN indices \cup {apiName} |->
                                  IF a = apiName THEN next ELSE indices[a]]]}
      [] OTHER ->
            {[ordered |-> items, indices |-> indices]}

\* Mutant of candidateOrder: keys in the outer loop, models in the inner loop.
candidateOrderKeysOuter(orderedModels, orderedKeys) ==
    [i \in 1..(Len(orderedModels) * Len(orderedKeys)) |->
        [model |-> orderedModels[((i - 1) % Len(orderedModels)) + 1],
         key |-> orderedKeys[((i - 1) \div Len(orderedModels)) + 1]]]

\* Mutant of candidateOrder: after the last pair the loops start over once.
candidateOrderRepeated(orderedModels, orderedKeys) ==
    [i \in 1..(2 * Len(orderedModels) * Len(orderedKeys)) |->
        [model |-> orderedModels[(((i - 1) \div Len(orderedKeys)) % Len(orderedModels)) + 1],
         key |-> orderedKeys[((i - 1) % Len(orderedKeys)) + 1]]]

\* The (model, key) pairs in the order the nested loops of getModel and
\* getBatch reach them: models in the outer loop, keys in the inner loop.
candidateOrder(orderedModels, orderedKeys) ==
    [i \in 1..(Len(orderedModels) * Len(orderedKeys)) |->
        [model |-> orderedModels[((i - 1) \div Len(orderedKeys)) + 1],
         key |-> orderedKeys[((i - 1) % Len(orderedKeys)) + 1]]]

\* One checkAndIncrement call as recorded in last.calls.
CallRecord(apiKey, modelName, r) ==
    [key |-> apiKey, model |-> modelName, frozen |-> r.frozen, res |-> r.res]

\* What getModel and getBatch return for an admitted candidate.
ResultOf(c, res) ==
    [key |-> c.key, model |-> c.model, limits |-> res.usage, borrowed |-> res.borrowed]

\* The loops of getModel from candidate i on: the counters they leave, the
\* checkAndIncrement calls made, the returned pair (none: null) and whether
\* a call threw.  getModelStep is the loop body once checkAndIncrement has
\* returned r for candidate i.
RECURSIVE getModelLoop(_, _, _, _, _, _, _, _)
getModelStep(r, frz, lims, cands, i, allowBorrowing, t, calls) ==
    IF r.threw
    THEN [counters |-> r.counters, calls |-> calls, results |-> <<>>, threw |-> TRUE]
    ELSE IF r.res.isWithinLimits
    THEN [counters |-> r.counters, calls |-> calls,
          results |-> << ResultOf(cands[i], r.res) >>, threw |-> FALSE]
    ELSE getModelLoop(r.counters, frz, lims, cands, i + 1, allowBorrowing, t, calls)

getModelTry(r, frz, lims, cands, i, allowBorrowing, t, calls) ==
    getModelStep(r, frz, lims, cands, i, allowBorrowing, t,
                 Append(calls, CallRecord(cands[i].key, cands[i].model, r)))

getModelLoop(ctrs, frz, lims, cands, i, allowBorrowing, t, calls) ==
    IF i > Len(cands)
    THEN [counters |-> ctrs, calls |-> calls, results |-> <<>>, threw |-> FALSE]
    ELSE getModelTry(checkAndIncrement(ctrs, frz, lims[cands[i].model], cands[i].key,
                                        cands[i].model, allowBorrowing, t),
                      frz, lims, cands, i, allowBorrowing, t, calls)

\* Mutant of batchFull: the collection ends one tuple late.
batchFullLate(results, size) == Len(results) > size

\* The test that ends the collection of getBatch.
batchFull(results, size) == Len(results) >= size

\* Mutant of batchAllowBorrowing: getBatch lets its candidates borrow.
batchAllowBorrowingOn == TRUE

\* allowBorrowing in the checkAndIncrement(key, model) call of getBatch: the
\* parameter's default.
batchAllowBorrowing == FALSE

\* Mutant of returnsNull: the empty result is returned as it is.
returnsNullNever(results) == FALSE

\* getModel and getBatch return null when no pair was admitted.
returnsNull(results) == Len(results) = 0

\* The loops of getBatch from candidate i on, with the results collected so
\* far.  Once the batch is full the inner loop breaks for every later model.
\* getBatchStep is the loop body once checkAndIncrement has returned r.
RECURSIVE getBatchLoop(_, _, _, _, _, _, _, _, _)
getBatchStep(r, frz, lims, cands, i, size, t, calls, results) ==
    IF r.threw
    THEN [counters |-> r.counters, calls |-> calls, results |-> results, threw |-> TRUE]
    ELSE getBatchLoop(r.counters, frz, lims, cands, i + 1, size, t, calls,
                      IF r.res.isWithinLimits
                      THEN Append(results, ResultOf(cands[i], r.res))
                      ELSE results)

getBatchTry(r, frz, lims, cands, i, size, t, calls, results) ==
    getBatchStep(r, frz, lims, cands, i, size, t,
                 Append(calls, CallRecord(cands[i].key, cands[i].model, r)), results)

getBatchLoop(ctrs, frz, lims, cands, i, size, t, calls, results) ==
    IF i > Len(cands)
    THEN [counters |-> ctrs, calls |-> calls, results |-> results, threw |-> FALSE]
    ELSE IF batchFull(results, size)
    THEN getBatchLoop(ctrs, frz, lims, cands, i + 1, size, t, calls, results)
    ELSE getBatchTry(checkAndIncrement(ctrs, frz, lims[cands[i].model], cands[i].key,
                                       cands[i].model, batchAllowBorrowing, t),
                     frz, lims, cands, i, size, t, calls, results)

----------------------------------------------------------------------------
(* The record of the last step *)

NoCall == [op |-> "none", api |-> "", key |-> "", model |-> "",
           allowBorrowing |-> FALSE, size |-> 0, threw |-> FALSE,
           isNull |-> FALSE, results |-> <<>>, calls |-> <<>>,
           orderedModels |-> <<>>, orderedKeys |-> <<>>, strategy |-> "", type |-> "",
           newLimits |-> <<>>, error |-> "", window |-> "", value |-> 0,
           counts |-> <<>>, usage |-> <<>>]

WithinMaxCount(ctrs) == \A k \in DOMAIN ctrs : ctrs[k].val <= MaxCount

KeysOf(apiName) == Range(findApi(apiName)[1].keys)
ModelsOf(apiName) == Range(findApi(apiName)[1].models)

----------------------------------------------------------------------------
(* Actions *)

Init ==
    /\ now = 0
    /\ counters = <<>>
    /\ freezes = <<>>
    /\ metrics = <<>>
    /\ limits = InitLimits
    /\ keyStrategy = "ascending"
    /\ modelStrategy = "ascending"
    /\ lastKeyIndices = <<>>
    /\ lastModelIndices = <<>>
    /\ metricsEnabled = TRUE
    /\ inflight = <<>>
    /\ last = NoCall

\* Time passes between two calls; Redis drops the keys whose TTL ran out.
\* The clock of the limiter is in whole seconds and a TTL runs from the
\* instant of its EXPIRE: within the second now + d, a key that expires in
\* that second is gone (lag = 0) or still there (lag = 1).
Tick ==
    \E d \in TickSteps : \E lag \in {0, 1} :
        /\ now + d <= MaxTime
        /\ now' = now + d
        /\ counters' = Unexpired(counters, now + d - lag)
        /\ freezes' = [k \in {x \in DOMAIN freezes : freezes[x] > now + d - lag}
                           |-> freezes[k]]
        /\ metrics' = Unexpired(metrics, now + d - lag)
        /\ last' = [NoCall EXCEPT !.op = "tick"]
        /\ UNCHANGED <<inflight, metricsEnabled, limits, keyStrategy, modelStrategy, lastKeyIndices, lastModelIndices>>

\* A direct call of checkAndIncrement(apiKey, model, allowBorrowing) with a
\* model object of the configuration.
CallCheckAndIncrement ==
    \E in \in CheckInputs : \E a \in {in[1]} : \E apiKey \in {in[2]} : \E m \in {in[3]} :
    \E allowBorrowing \in {in[4]} :
        \E r \in {checkAndIncrement(counters, freezes, limits[a][m], apiKey, m,
                                     allowBorrowing, now)} :
            /\ WithinMaxCount(r.counters)
            /\ counters' = r.counters
            /\ last' = [NoCall EXCEPT !.op = "checkAndIncrement", !.api = a,
                           !.key = apiKey, !.model = m,
                           !.allowBorrowing = allowBorrowing, !.threw = r.threw,
                           !.calls = << CallRecord(apiKey, m, r) >>]
            /\ UNCHANGED <<inflight, metricsEnabled, now, freezes, metrics, limits, keyStrategy, modelStrategy,
                           lastKeyIndices, lastModelIndices>>

\* freezeModel(apiName, key, modelName, duration): SET freeze:.. '1' EX duration.
CallFreezeModel ==
    \E in \in FreezeInputs :
        /\ last' = [NoCall EXCEPT !.op = "freezeModel", !.api = in[1], !.key = in[2],
                       !.model = in[3], !.size = in[4],
                       !.threw = (findApi(in[1]) = <<>>)]
        /\ freezes' = IF findApi(in[1]) = <<>> THEN freezes
                      ELSE SetEx(freezes, <<in[2], in[3]>>, in[4], now)
        /\ UNCHANGED <<inflight, metricsEnabled, now, counters, metrics, limits, keyStrategy, modelStrategy,
                       lastKeyIndices, lastModelIndices>>

\* updateMetrics(apiKey, modelName, type), called directly.
CallUpdateMetrics ==
    \E in \in MetricTargets :
    \E m \in {updateMetrics(metrics, in[1], in[2], in[3], now)} :
        /\ \A k \in DOMAIN m : m[k].val <= MaxMetric
        /\ metrics' = m
        /\ last' = [NoCall EXCEPT !.op = "updateMetrics", !.key = in[1], !.model = in[2]]
        /\ UNCHANGED <<inflight, metricsEnabled, now, counters, freezes, limits, keyStrategy, modelStrategy,
                       lastKeyIndices, lastModelIndices>>

\* getModel(apiName, allowBorrowing)
CallGetModel ==
    \E in \in GetModelInputs : \E apiName \in {in[1]} : \E allowBorrowing \in {in[2]} :
        IF findApi(apiName) = <<>>
        THEN /\ last' = [NoCall EXCEPT !.op = "getModel", !.api = apiName,
                            !.allowBorrowing = allowBorrowing, !.threw = TRUE]
             /\ UNCHANGED <<inflight, metricsEnabled, now, counters, freezes, metrics, limits, keyStrategy, modelStrategy,
                            lastKeyIndices, lastModelIndices>>
        ELSE
          LET api == findApi(apiName)[1] IN
          \E om \in getOrderedItems(api.models, apiName, modelStrategy, lastModelIndices) :
          \E ok \in getOrderedItems(api.keys, apiName, keyStrategy, lastKeyIndices) :
            \E r \in {getModelLoop(counters, freezes, limits[apiName],
                                    candidateOrder(om.ordered, ok.ordered), 1,
                                    allowBorrowing, now, <<>>)} :
                /\ WithinMaxCount(r.counters)
                /\ counters' = r.counters
                /\ lastModelIndices' = om.indices
                /\ lastKeyIndices' = ok.indices
                /\ last' = [NoCall EXCEPT !.op = "getModel", !.api = apiName,
                               !.allowBorrowing = allowBorrowing, !.threw = r.threw,
                               !.isNull = (~r.threw /\ returnsNull(r.results)),
                               !.results = r.results, !.calls = r.calls,
                               !.orderedModels = om.ordered, !.orderedKeys = ok.ordered]
                /\ UNCHANGED <<inflight, metricsEnabled, now, freezes, metrics, limits, keyStrategy, modelStrategy>>

\* getBatch(apiName, size)
CallGetBatch ==
    \E in \in GetBatchInputs : \E apiName \in {in[1]} : \E size \in {in[2]} :
        IF findApi(apiName) = <<>>
        THEN /\ last' = [NoCall EXCEPT !.op = "getBatch", !.api = apiName,
                            !.size = size, !.threw = TRUE]
             /\ UNCHANGED <<inflight, metricsEnabled, now, counters, freezes, metrics, limits, keyStrategy, modelStrategy,
                            lastKeyIndices, lastModelIndices>>
        ELSE
          LET api == findApi(apiName)[1] IN
          \E om \in getOrderedItems(api.models, apiName, modelStrategy, lastModelIndices) :
          \E ok \in getOrderedItems(api.keys, apiName, keyStrategy, lastKeyIndices) :
            \E r \in {getBatchLoop(counters, freezes, limits[apiName],
                                    candidateOrder(om.ordered, ok.ordered), 1,
                                    size, now, <<>>, <<>>)} :
                /\ WithinMaxCount(r.counters)
                /\ counters' = r.counters
                /\ lastModelIndices' = om.indices
                /\ lastKeyIndices' = ok.indices
                /\ last' = [NoCall EXCEPT !.op = "getBatch", !.api = apiName,
                               !.size = size, !.threw = r.threw,
                               !.isNull = (~r.threw /\ returnsNull(r.results)),
                               !.results = r.results, !.calls = r.calls,
                               !.orderedModels = om.ordered, !.orderedKeys = ok.ordered]
                /\ UNCHANGED <<inflight, metricsEnabled, now, freezes, metrics, limits, keyStrategy, modelStrategy>>

\* setKeyStrategy(strategy)
SetKeyStrategy ==
    \E strategy \in StrategyInputs :
        /\ keyStrategy' = IF strategy \in validStrategies THEN strategy ELSE keyStrategy
        /\ last' = [NoCall EXCEPT !.op = "setKeyStrategy", !.strategy = strategy,
                       !.threw = (strategy \notin validStrategies)]
        /\ UNCHANGED <<inflight, metricsEnabled, now, counters, freezes, metrics, limits, modelStrategy,
                       lastKeyIndices, lastModelIndices>>

\* setModelStrategy(strategy)
SetModelStrategy ==
    \E strategy \in StrategyInputs :
        /\ modelStrategy' = IF strategy \in validStrategies THEN strategy ELSE modelStrategy
        /\ last' = [NoCall EXCEPT !.op = "setModelStrategy", !.strategy = strategy,
                       !.threw = (strategy \notin validStrategies)]
        /\ UNCHANGED <<inflight, metricsEnabled, now, counters, freezes, metrics, limits, keyStrategy,
                       lastKeyIndices, lastModelIndices>>

\* getOrderedItems(api.keys, apiName, 'key'), called as getModel calls it.
OrderKeys ==
    \E in \in OrderInputs :
    \E o \in getOrderedItems(findApi(in[1])[1].keys, in[1], keyStrategy, lastKeyIndices) :
        /\ in[2] = "key"
        /\ lastKeyIndices' = o.indices
        /\ last' = [NoCall EXCEPT !.op = "getOrderedItems", !.api = in[1],
                       !.type = in[2], !.orderedKeys = o.ordered]
        /\ UNCHANGED <<inflight, metricsEnabled, now, counters, freezes, metrics, limits, keyStrategy,
                       modelStrategy, lastModelIndices>>

\* getOrderedItems(api.models, apiName, 'model'), called as getModel calls it.
OrderModels ==
    \E in \in OrderInputs :
    \E o \in getOrderedItems(findApi(in[1])[1].models, in[1], modelStrategy,
                             lastModelIndices) :
        /\ in[2] = "model"
        /\ lastModelIndices' = o.indices
        /\ last' = [NoCall EXCEPT !.op = "getOrderedItems", !.api = in[1],
                       !.type = in[2], !.orderedModels = o.ordered]
        /\ UNCHANGED <<inflight, metricsEnabled, now, counters, freezes, metrics, limits, keyStrategy,
                       modelStrategy, lastKeyIndices>>

\* updateLimits(apiName, modelName, newLimits)
CallUpdateLimits ==
    \E in \in LimitInputs :
    \E r \in {updateLimits(limits, in[1], in[2], in[3])} :
        /\ limits' = r.limits
        /\ last' = [NoCall EXCEPT !.op = "updateLimits", !.api = in[1], !.model = in[2],
                       !.newLimits = in[3], !.threw = (r.error # ""),
                       !.error = r.error]
        /\ UNCHANGED <<inflight, metricsEnabled, now, counters, freezes, metrics, keyStrategy, modelStrategy,
                       lastKeyIndices, lastModelIndices>>

Next ==
    \/ Tick
    \/ CallCheckAndIncrement
    \/ CallFreezeModel
    \/ CallGetModel
    \/ CallGetBatch
    \/ CallUpdateMetrics

Spec == Init /\ [][Next]_vars

\* The registry at one instant: updateLimits among the calls of Spec, the
\* clock standing still.
NextLimits ==
    \/ CallUpdateLimits
    \/ CallCheckAndIncrement
    \/ CallFreezeModel
    \/ CallGetModel
    \/ CallGetBatch
    \/ CallUpdateMetrics

SpecLimits == Init /\ [][NextLimits]_vars

\* The window names getWindowTimestamp and getWindowExpiry are called with:
\* the registered ones and one that is not registered.
WindowInputs == DOMAIN customWindows \cup {"week"}

\* The times the window functions are called at.
ProbeTimes ==
    {t \in {k * customWindows[w] + o :
                w \in DOMAIN customWindows, k \in 0..MaxSpan, o \in ProbeOffsets} :
        t >= 0}

\* The limiter constructed at one of the probe times.
InitWindows ==
    /\ now \in ProbeTimes
    /\ counters = <<>>
    /\ freezes = <<>>
    /\ metrics = <<>>
    /\ limits = InitLimits
    /\ keyStrategy = "ascending"
    /\ modelStrategy = "ascending"
    /\ lastKeyIndices = <<>>
    /\ lastModelIndices = <<>>
    /\ metricsEnabled = TRUE
    /\ inflight = <<>>
    /\ last = NoCall

\* getWindowTimestamp(window)
CallGetWindowTimestamp ==
    \E window \in WindowInputs :
        /\ last' = [NoCall EXCEPT !.op = "getWindowTimestamp", !.window = window,
                       !.threw = ~WindowValid(window),
                       !.value = IF WindowValid(window)
                                 THEN getWindowTimestamp(window, now) ELSE 0]
        /\ UNCHANGED <<inflight, metricsEnabled, now, counters, freezes, metrics, limits, keyStrategy,
                       modelStrategy, lastKeyIndices, lastModelIndices>>

\* getWindowExpiry(window): the throw is that of getWindowTimestamp.
CallGetWindowExpiry ==
    \E window \in WindowInputs :
        /\ last' = [NoCall EXCEPT !.op = "getWindowExpiry", !.window = window,
                       !.threw = ~WindowValid(window),
                       !.value = IF WindowValid(window)
                                 THEN getWindowExpiry(window, now) ELSE 0]
        /\ UNCHANGED <<inflight, metricsEnabled, now, counters, freezes, metrics, limits, keyStrategy,
                       modelStrategy, lastKeyIndices, lastModelIndices>>

\* The window functions alone, called at the probe times.
NextWindows ==
    \/ CallGetWindowTimestamp
    \/ CallGetWindowExpiry

SpecWindows == InitWindows /\ [][NextWindows]_vars

\* The limiter constructed with enableMetrics true or false.
InitMetrics ==
    /\ now = 0
    /\ counters = <<>>
    /\ freezes = <<>>
    /\ metrics = <<>>
    /\ limits = InitLimits
    /\ keyStrategy = "ascending"
    /\ modelStrategy = "ascending"
    /\ lastKeyIndices = <<>>
    /\ lastModelIndices = <<>>
    /\ metricsEnabled \in BOOLEAN
    /\ inflight = <<>>
    /\ last = NoCall

\* updateMetrics(apiKey, modelName, type), called directly for every type.
CallUpdateMetricsOfType ==
    \E in \in MetricTypeTargets :
    \E m \in {updateMetrics(metrics, in[1], in[2], in[3], now)} :
        /\ \A k \in DOMAIN m : m[k].val <= MaxMetric
        /\ metrics' = m
        /\ last' = [NoCall EXCEPT !.op = "updateMetrics", !.key = in[1], !.model = in[2],
                       !.type = in[3]]
        /\ UNCHANGED <<inflight, metricsEnabled, now, counters, freezes, limits, keyStrategy,
                       modelStrategy, lastKeyIndices, lastModelIndices>>

\* getMetrics(apiName, apiKey, modelName)
CallGetMetrics ==
    \E in \in MetricReadInputs :
    \E r \in {getMetrics(metrics, in[1], in[2], in[3], now)} :
        /\ last' = [NoCall EXCEPT !.op = "getMetrics", !.api = in[1], !.key = in[2],
                       !.model = in[3], !.threw = r.threw, !.isNull = r.isNull,
                       !.counts = r.counts]
        /\ UNCHANGED <<inflight, metricsEnabled, now, counters, freezes, metrics, limits,
                       keyStrategy, modelStrategy, lastKeyIndices, lastModelIndices>>

\* The (apiName, key, model) getUsageStats is called for.
UsageInputs == MetricReadInputs \cup {<<"api1", "k1", "m3">>}

\* getUsageStats(apiName, apiKey, modelName)
CallGetUsageStats ==
    \E in \in UsageInputs :
    \E r \in {getUsageStats(counters, metrics, limits, in[1], in[2], in[3], now)} :
        /\ counters' = r.counters
        /\ last' = [NoCall EXCEPT !.op = "getUsageStats", !.api = in[1], !.key = in[2],
                       !.model = in[3], !.threw = r.threw,
                       !.isNull = (r.metrics = <<>>),
                       !.counts = r.metrics, !.usage = r.currentUsage]
        /\ UNCHANGED <<inflight, metricsEnabled, now, freezes, metrics, limits,
                       keyStrategy, modelStrategy, lastKeyIndices, lastModelIndices>>

\* The metrics, enabled or disabled, among the calls that admit and reject.
NextMetrics ==
    \/ CallUpdateMetricsOfType
    \/ CallGetMetrics
    \/ CallGetUsageStats
    \/ CallCheckAndIncrement
    \/ CallGetModel
    \/ CallGetBatch
    \/ CallFreezeModel

SpecMetrics == InitMetrics /\ [][NextMetrics]_vars

\* The selection strategies alone: the setters and getOrderedItems.
NextRotation ==
    \/ SetKeyStrategy
    \/ SetModelStrategy
    \/ OrderKeys
    \/ OrderModels

SpecRotation == Init /\ [][NextRotation]_vars

\* The APIs getModel is called for where the cursors are the subject.
SelectionInputs == {"api1", "api3", "nope"}

\* getModel(apiName) for every API, without borrowing.
CallGetModelOfApi ==
    \E apiName \in SelectionInputs :
        IF findApi(apiName) = <<>>
        THEN /\ last' = [NoCall EXCEPT !.op = "getModel", !.api = apiName, !.threw = TRUE]
             /\ UNCHANGED <<inflight, metricsEnabled, now, counters, freezes, metrics,
                            limits, keyStrategy, modelStrategy, lastKeyIndices,
                            lastModelIndices>>
        ELSE
          \E om \in getOrderedItems(findApi(apiName)[1].models, apiName, modelStrategy,
                                    lastModelIndices) :
          \E ok \in getOrderedItems(findApi(apiName)[1].keys, apiName, keyStrategy,
                                    lastKeyIndices) :
            \E r \in {getModelLoop(counters, freezes, limits[apiName],
                                    candidateOrder(om.ordered, ok.ordered), 1,
                                    FALSE, now, <<>>)} :
                /\ WithinMaxCount(r.counters)
                /\ counters' = r.counters
                /\ lastModelIndices' = om.indices
                /\ lastKeyIndices' = ok.indices
                /\ last' = [NoCall EXCEPT !.op = "getModel", !.api = apiName,
                               !.threw = r.threw,
                               !.isNull = (~r.threw /\ returnsNull(r.results)),
                               !.results = r.results, !.calls = r.calls,
                               !.orderedModels = om.ordered, !.orderedKeys = ok.ordered]
                /\ UNCHANGED <<inflight, metricsEnabled, now, freezes, metrics, limits,
                               keyStrategy, modelStrategy>>

\* The updateLimits calls made where the cursors are the subject: one that
\* succeeds and one that throws.
SelectionLimitInputs ==
    { <<"api1", "m1", << Entry("minute", Num(2)) >> >>,
      <<"nope", "m1", << Entry("minute", Num(2)) >> >> }

\* updateLimits(apiName, modelName, newLimits), called for these.
CallUpdateLimitsOfModel ==
    \E in \in SelectionLimitInputs :
    \E r \in {updateLimits(limits, in[1], in[2], in[3])} :
        /\ limits' = r.limits
        /\ last' = [NoCall EXCEPT !.op = "updateLimits", !.api = in[1], !.model = in[2],
                       !.newLimits = in[3], !.threw = (r.error # ""),
                       !.error = r.error]
        /\ UNCHANGED <<inflight, metricsEnabled, now, counters, freezes, metrics,
                       keyStrategy, modelStrategy, lastKeyIndices, lastModelIndices>>

\* The limiter constructed with options.keyStrategy and
\* options.modelStrategy, each one of the valid names.
InitSelection ==
    /\ now = 0
    /\ counters = <<>>
    /\ freezes = <<>>
    /\ metrics = <<>>
    /\ limits = InitLimits
    /\ keyStrategy \in validStrategies
    /\ modelStrategy \in validStrategies
    /\ lastKeyIndices = <<>>
    /\ lastModelIndices = <<>>
    /\ metricsEnabled = TRUE
    /\ inflight = <<>>
    /\ last = NoCall

\* Selection under every pair of strategies, among the calls that do not
\* select.
NextSelection ==
    \/ CallGetModelOfApi
    \/ CallGetBatch
    \/ CallCheckAndIncrement
    \/ CallFreezeModel
    \/ CallUpdateLimitsOfModel

SpecSelection == InitSelection /\ [][NextSelection]_vars

----------------------------------------------------------------------------
(* Repeated freezes of one pair *)

\* The arguments of freezeModel where the duration of the freeze is the
\* subject: a short and a long duration for the same pair.
FreezeSpanInputs == {<<"api1", "k1", "m1", d>> : d \in {30, 60}}

\* freezeModel(apiName, key, modelName, duration); last.value is the expiry
\* of the flag the call found in place (0: none).
CallFreezeModelFor ==
    \E in \in FreezeSpanInputs :
        /\ last' = [NoCall EXCEPT !.op = "freezeModel", !.api = in[1], !.key = in[2],
                       !.model = in[3], !.size = in[4],
                       !.threw = (findApi(in[1]) = <<>>),
                       !.value = IF <<in[2], in[3]>> \in DOMAIN freezes
                                 THEN freezes[<<in[2], in[3]>>] ELSE 0]
        /\ freezes' = IF findApi(in[1]) = <<>> THEN freezes
                      ELSE SetEx(freezes, <<in[2], in[3]>>, in[4], now)
        /\ UNCHANGED <<inflight, metricsEnabled, now, counters, metrics, limits,
                       keyStrategy, modelStrategy, lastKeyIndices, lastModelIndices>>

NextFreeze ==
    \/ CallFreezeModelFor
    \/ CallCheckAndIncrement
    \/ Tick

SpecFreeze == Init /\ [][NextFreeze]_vars

----------------------------------------------------------------------------
(* Selection with quota to spare *)

\* The configuration with every limit above the counts the model reaches:
\* no attempt is rejected for a limit.
WideLimits ==
    [a \in DOMAIN InitLimits |->
        [m \in DOMAIN InitLimits[a] |->
            [w \in DOMAIN InitLimits[a][m] |-> MaxCount + 1]]]

\* The limiter constructed with these limits and with options.keyStrategy
\* and options.modelStrategy, each one of the valid names.
InitWide ==
    /\ now = 0
    /\ counters = <<>>
    /\ freezes = <<>>
    /\ metrics = <<>>
    /\ limits = WideLimits
    /\ keyStrategy \in validStrategies
    /\ modelStrategy \in validStrategies
    /\ lastKeyIndices = <<>>
    /\ lastModelIndices = <<>>
    /\ metricsEnabled = TRUE
    /\ inflight = <<>>
    /\ last = NoCall

\* The arguments of getBatch where the size of the batch is the subject:
\* sizes below and above the number of pairs of the API.
WideBatchInputs == {<<"api1", 3>>, <<"api1", 5>>, <<"api2", 5>>}

\* getBatch(apiName, size), called for these.
CallGetBatchOfSize ==
    \E in \in WideBatchInputs : \E apiName \in {in[1]} : \E size \in {in[2]} :
    \E om \in getOrderedItems(findApi(apiName)[1].models, apiName, modelStrategy,
                              lastModelIndices) :
    \E ok \in getOrderedItems(findApi(apiName)[1].keys, apiName, keyStrategy,
                              lastKeyIndices) :
    \E r \in {getBatchLoop(counters, freezes, limits[apiName],
                            candidateOrder(om.ordered, ok.ordered), 1,
                            size, now, <<>>, <<>>)} :
        /\ WithinMaxCount(r.counters)
        /\ counters' = r.counters
        /\ lastModelIndices' = om.indices
        /\ lastKeyIndices' = ok.indices
        /\ last' = [NoCall EXCEPT !.op = "getBatch", !.api = apiName,
                       !.size = size, !.threw = r.threw,
                       !.isNull = (~r.threw /\ returnsNull(r.results)),
                       !.results = r.results, !.calls = r.calls,
                       !.orderedModels = om.ordered, !.orderedKeys = ok.ordered]
        /\ UNCHANGED <<inflight, metricsEnabled, now, freezes, metrics, limits,
                       keyStrategy, modelStrategy>>

NextBatch ==
    \/ CallGetBatchOfSize
    \/ CallCheckAndIncrement
    \/ CallFreezeModel

SpecBatch == InitWide /\ [][NextBatch]_vars

\* getModel calls only, every pair admissible in each of them: the rounds of
\* the selection.
NextRounds ==
    \/ CallGetModelOfApi

SpecRounds == InitWide /\ [][NextRounds]_vars

----------------------------------------------------------------------------
(* Concurrent callers: checkAndIncrement, getModel and getBatch one round   *)
(* trip at a time.  A call in progress is a record of inflight: the         *)
(* candidates it iterates over (one for a direct checkAndIncrement), the    *)
(* results it has collected, the index of the                               *)
(* candidate being evaluated, the stage of that evaluation, the windows     *)
(* still to be sent in the stage, the INCR replies received, and held: the  *)
(* counter keys the call has incremented and neither decremented again nor  *)
(* had admitted.  Every caller makes one call.  at is the clock when the    *)
(* keys of the candidate were built, and calls the checkAndIncrement calls  *)
(* that have returned within the call, kept after the call has returned.    *)

Callers == 1..MaxCallers

\* The calls the callers start: checkAndIncrement(key, model),
\* getModel(apiName) and getBatch(apiName, size), without borrowing.
RaceInputs ==
    {<<"checkAndIncrement", "api1", "k1", "m1", 0>>, <<"getModel", "api2", "", "", 0>>,
     <<"getBatch", "api2", "", "", 2>>}

\* Object.entries(limits): the windows in the order they are configured in,
\* the shorter window first.
RECURSIVE entriesOf(_)
entriesOf(windows) ==
    IF windows = {} THEN <<>>
    ELSE LET w == CHOOSE x \in windows :
                     \A y \in windows : customWindows[x] <= customWindows[y]
         IN  <<w>> \o entriesOf(windows \ {w})

\* usage as built from the replies of the pipeline.
usageOfReplies(counts, lim, t) ==
    [w \in DOMAIN lim |->
        [used |-> counts[w], remaining |-> Max(0, lim[w] - counts[w]),
         limit |-> lim[w], reset |-> getWindowExpiry(w, t)]]

\* Mutant of needsRollback: a rejected attempt returns without a rollback.
needsRollbackNever(res) == FALSE

\* if (!isWithinLimits): the rollback pipeline is sent.
needsRollback(res) == ~res.isWithinLimits

\* Mutant of rollbackEntries: the call goes on before the DECR of the last
\* window is sent.
rollbackEntriesButLast(lim) ==
    SubSeq(entriesOf(DOMAIN lim), 1, Len(entriesOf(DOMAIN lim)) - 1)

\* Object.values(keys) of the rollback loop: every window of model.limits.
rollbackEntries(lim) == entriesOf(DOMAIN lim)

\* inflight with the call of caller p replaced.
Put(p, call) == [q \in DOMAIN inflight \cup {p} |-> IF q = p THEN call ELSE inflight[q]]

\* The position of a caller whose call has returned; each caller makes one call.
Returned ==
    [op |-> "", api |-> "", cands |-> <<>>, i |-> 0, allowBorrowing |-> FALSE,
     size |-> 0, results |-> <<>>,
     stage |-> "returned", todo |-> <<>>, counts |-> <<>>, held |-> {},
     at |-> 0, calls |-> <<>>]

\* The callers whose call is in progress.
Running == {p \in DOMAIN inflight : inflight[p].stage # "returned"}

\* The candidate caller p is evaluating, and the limits of its model.
Candidate(p) == inflight[p].cands[inflight[p].i]
CandidateLimits(p) == limits[inflight[p].api][Candidate(p).model]

\* A caller starts a call: getModel finds the API and orders its models and
\* keys before the first round trip.
RaceStart ==
    \E in \in RaceInputs :
    \E p \in {q \in Callers : q \notin DOMAIN inflight
                                /\ \A r \in Callers \ DOMAIN inflight : q <= r} :
    \E om \in getOrderedItems(findApi(in[2])[1].models, in[2], modelStrategy,
                              lastModelIndices) :
    \E ok \in getOrderedItems(findApi(in[2])[1].keys, in[2], keyStrategy, lastKeyIndices) :
        /\ inflight' = Put(p, [op |-> in[1], api |-> in[2],
                               cands |-> IF in[1] = "checkAndIncrement"
                                         THEN << [model |-> in[4], key |-> in[3]] >>
                                         ELSE candidateOrder(om.ordered, ok.ordered),
                               i |-> 1,
                               allowBorrowing |-> IF in[1] = "getBatch"
                                                  THEN batchAllowBorrowing ELSE FALSE,
                               size |-> in[5], results |-> <<>>, stage |-> "isFrozen",
                               todo |-> <<>>, counts |-> <<>>, held |-> {},
                               at |-> now, calls |-> <<>>])
        /\ lastModelIndices' = IF in[1] = "checkAndIncrement" THEN lastModelIndices
                               ELSE om.indices
        /\ lastKeyIndices' = IF in[1] = "checkAndIncrement" THEN lastKeyIndices
                             ELSE ok.indices
        /\ last' = [NoCall EXCEPT !.op = "await"]
        /\ UNCHANGED <<metricsEnabled, now, counters, freezes, metrics, limits,
                       keyStrategy, modelStrategy>>

\* checkAndIncrement has its result for the candidate of caller p: a direct
\* call returns it; getModel returns the pair when it is admitted, getBatch
\* returns once the batch is full, both return after the last candidate, and
\* go on to the next candidate otherwise.
CandidateDone(p, res, frozen, held) ==
    LET call == inflight[p]
        c == Candidate(p)
        results == IF res.isWithinLimits THEN Append(call.results, ResultOf(c, res))
                   ELSE call.results
        calls == Append(call.calls, [api |-> call.api, key |-> c.key, model |-> c.model,
                                     frozen |-> frozen,
                                     admitted |-> res.isWithinLimits,
                                     at |-> IF frozen THEN now ELSE call.at])
        record == [NoCall EXCEPT !.op = call.op, !.api = call.api,
                                 !.allowBorrowing = call.allowBorrowing,
                                 !.size = call.size,
                                 !.calls = << [key |-> c.key, model |-> c.model,
                                               frozen |-> frozen, res |-> res] >>]
    IN  IF call.op = "checkAndIncrement"
        THEN /\ inflight' = Put(p, [Returned EXCEPT !.calls = calls])
             /\ last' = [record EXCEPT !.key = c.key, !.model = c.model]
        ELSE IF \/ call.i = Len(call.cands)
                \/ call.op = "getModel" /\ res.isWithinLimits
                \/ call.op = "getBatch" /\ batchFull(results, call.size)
        THEN /\ inflight' = Put(p, [Returned EXCEPT !.calls = calls])
             /\ last' = [record EXCEPT !.results = results,
                                       !.isNull = returnsNull(results)]
        ELSE /\ inflight' = Put(p, [call EXCEPT !.i = @ + 1, !.stage = "isFrozen",
                                                !.todo = <<>>, !.counts = <<>>,
                                                !.results = results, !.held = held,
                                                !.calls = calls])
             /\ last' = [NoCall EXCEPT !.op = "await"]

\* await this.isFrozen(apiKey, model.name)
RaceIsFrozen ==
    \E p \in DOMAIN inflight :
        /\ inflight[p].stage = "isFrozen"
        /\ IF isFrozen(freezes, Candidate(p).key, Candidate(p).model)
           THEN CandidateDone(p, frozenResult, TRUE, inflight[p].held)
           ELSE /\ inflight' = Put(p, [inflight[p] EXCEPT
                                         !.stage = "incr", !.at = now,
                                         !.todo = entriesOf(DOMAIN CandidateLimits(p))])
                /\ last' = [NoCall EXCEPT !.op = "await"]
        /\ UNCHANGED <<metricsEnabled, now, counters, freezes, metrics, limits,
                       keyStrategy, modelStrategy, lastKeyIndices, lastModelIndices>>

\* The first pipeline, one window at a time: INCR and EXPIRE of the window's
\* counter, under the key and with the expiry computed when the pipeline was
\* set up.  With the reply of the last window the results are processed.
RaceIncr ==
    \E p \in DOMAIN inflight :
    \E key \in {getKey(Candidate(p).key, Candidate(p).model, Head(inflight[p].todo),
                       inflight[p].at)
                    : x \in {y \in {1} : inflight[p].stage = "incr"}} :
    \E ctrs \in {Expire(Incr(counters, key), key,
                         getWindowExpiry(Head(inflight[p].todo), inflight[p].at), now)} :
    \E counts \in {[w \in DOMAIN inflight[p].counts \cup {Head(inflight[p].todo)} |->
                       IF w = Head(inflight[p].todo) THEN ctrs[key].val
                       ELSE inflight[p].counts[w]]} :
        /\ counters' = ctrs
        /\ IF Len(inflight[p].todo) > 1
           THEN /\ inflight' = Put(p, [inflight[p] EXCEPT !.todo = Tail(@),
                                                          !.counts = counts,
                                                          !.held = @ \cup {key}])
                /\ last' = [NoCall EXCEPT !.op = "await"]
           ELSE \E res \in {processResults(usageOfReplies(counts, CandidateLimits(p),
                                                           inflight[p].at),
                                            CandidateLimits(p),
                                            inflight[p].allowBorrowing)} :
                  IF needsRollback(res)
                  THEN /\ inflight' = Put(p, [inflight[p] EXCEPT
                                                !.stage = "decr",
                                                !.todo = rollbackEntries(CandidateLimits(p)),
                                                !.counts = counts,
                                                !.held = @ \cup {key}])
                       /\ last' = [NoCall EXCEPT !.op = "await"]
                  ELSE CandidateDone(p, res, FALSE,
                                     IF res.isWithinLimits THEN {}
                                     ELSE inflight[p].held \cup {key})
        /\ UNCHANGED <<metricsEnabled, now, freezes, metrics, limits,
                       keyStrategy, modelStrategy, lastKeyIndices, lastModelIndices>>

\* The rollback pipeline, one window at a time: DECR of the window's counter.
\* After the last reply checkAndIncrement returns its rejection.
RaceDecr ==
    \E p \in DOMAIN inflight :
        /\ inflight[p].stage = "decr"
        /\ IF inflight[p].todo = <<>>
           THEN /\ counters' = counters
                /\ CandidateDone(p, processResults(usageOfReplies(inflight[p].counts,
                                                                   CandidateLimits(p),
                                                                   inflight[p].at),
                                                    CandidateLimits(p),
                                                    inflight[p].allowBorrowing),
                                 FALSE, inflight[p].held)
           ELSE \E key \in {getKey(Candidate(p).key, Candidate(p).model,
                                    Head(inflight[p].todo), inflight[p].at)} :
                  /\ counters' = Decr(counters, key)
                  /\ inflight' = Put(p, [inflight[p] EXCEPT !.todo = Tail(@),
                                                            !.held = @ \ {key}])
                  /\ last' = [NoCall EXCEPT !.op = "await"]
        /\ UNCHANGED <<metricsEnabled, now, freezes, metrics, limits,
                       keyStrategy, modelStrategy, lastKeyIndices, lastModelIndices>>

\* Several callers of checkAndIncrement, getModel and getBatch at one
\* instant, and freezeModel between their round trips.
NextRace ==
    \/ RaceStart
    \/ RaceIsFrozen
    \/ RaceIncr
    \/ RaceDecr
    \/ CallFreezeModel

SpecRace == Init /\ [][NextRace]_vars

\* The same callers with the clock moving between their round trips: a
\* call in progress keeps the keys it built when it set up its pipeline.
NextRaceClock ==
    \/ NextRace
    \/ Tick

SpecRaceClock == Init /\ [][NextRaceClock]_vars

----------------------------------------------------------------------------
(* src/index.js: the countdown limiter.  A window counter is created with   *)
(* the configured limit and its duration as TTL by the first getModel that  *)
(* reads it, and decremented by every getModel that returns its pair; a     *)
(* counter at 0 blocks the pair.  A call advances one awaited Redis command *)
(* at a time.  An entry of counters carries returns, the number of times    *)
(* getModel has returned the pair since the key was created, and freezes    *)
(* records the freezeModel calls that have completed: the pair and the time *)
(* its duration runs out.                                                    *)

\* The calls made: getModel(apiName) and freezeModel(options).
IndexInputs ==
    {<<"getModel", "api2", "", "", 0>>, <<"getModel", "nope", "", "", 0>>,
     <<"freezeModel", "api2", "k1", "m1", 60>>}

\* `${keyPrefix}:${apiName}:${key}:${model}:${limit}`: the prefix is fixed.
redisKey(apiName, key, model, limit) == <<apiName, key, model, limit>>

\* Object.entries(modelLimits) with the windows whose duration is not > 0
\* filtered out.
parsedModelLimits(modelLimits) ==
    entriesOf({w \in DOMAIN modelLimits : WindowValid(w)})

\* KEYS `${keyPrefix}:${apiName}:${key}:${model}:*`
Keys(store, apiName, key, model) ==
    {k \in DOMAIN store : k[1] = apiName /\ k[2] = key /\ k[3] = model}

\* SETEX key seconds value, issued at time t.
Setex(store, k, seconds, value, t) ==
    [x \in DOMAIN store \cup {k} |->
        IF x = k
        THEN [val |-> value, exp |-> t + seconds,
              returns |-> IF k \in DOMAIN store THEN store[k].returns ELSE 0]
        ELSE store[x]]

\* this.redis.decr(redisKey) for each of the affected keys, sent together
\* as getModel returns the pair; a key that has expired since KEYS is
\* created at -1 without a TTL.
decrAffected(store, affected) ==
    [x \in DOMAIN store \cup affected |->
        IF x \notin affected THEN store[x]
        ELSE IF x \in DOMAIN store
        THEN [store[x] EXCEPT !.val = @ - 1, !.returns = @ + 1]
        ELSE [val |-> 0 - 1, exp |-> 0, returns |-> 1]]

\* The limiter of src/index.js as constructed: the default strategies.
InitIndex ==
    /\ now = 0
    /\ counters = <<>>
    /\ freezes = <<>>
    /\ metrics = <<>>
    /\ limits = InitLimits
    /\ keyStrategy = "ordered"
    /\ modelStrategy = "ordered"
    /\ lastKeyIndices = <<>>
    /\ lastModelIndices = <<>>
    /\ metricsEnabled = TRUE
    /\ inflight = <<>>
    /\ last = NoCall

\* The call of caller p once the window its candidate was read for is
\* accepted: the next window is read, or the pair is valid and its keys
\* are listed.
windowAccepted(call) ==
    IF Len(call.todo) > 1
    THEN [call EXCEPT !.todo = Tail(@), !.stage = "get"]
    ELSE [call EXCEPT !.todo = <<>>, !.stage = "keys"]

\* A caller starts getModel(apiName) or freezeModel(options).  getModel for
\* an API that is not configured returns { key: null, model: null }.
IndexStart ==
    \E in \in IndexInputs :
    \E p \in {q \in Callers : q \notin DOMAIN inflight
                                /\ \A r \in Callers \ DOMAIN inflight : q <= r} :
        /\ IF in[1] = "getModel" /\ findApi(in[2]) = <<>>
           THEN /\ inflight' = Put(p, Returned)
                /\ last' = [NoCall EXCEPT !.op = "getModel", !.api = in[2],
                                          !.isNull = TRUE]
           ELSE /\ inflight' =
                     Put(p, [op |-> in[1], api |-> in[2],
                             cands |-> IF in[1] = "getModel"
                                       THEN candidateOrder(findApi(in[2])[1].models,
                                                           findApi(in[2])[1].keys)
                                       ELSE << [model |-> in[4], key |-> in[3]] >>,
                             i |-> 1,
                             stage |-> IF in[1] = "getModel" THEN "get" ELSE "keys",
                             todo |-> IF in[1] = "getModel"
                                      THEN parsedModelLimits(
                                               limits[in[2]][findApi(in[2])[1].models[1]])
                                      ELSE <<>>,
                             limitCount |-> 0, affected |-> {}, duration |-> in[5],
                             barred |-> {k \in DOMAIN freezes : freezes[k] > now}])
                /\ last' = [NoCall EXCEPT !.op = "await"]
        /\ UNCHANGED <<metricsEnabled, now, counters, freezes, metrics, limits,
                       keyStrategy, modelStrategy, lastKeyIndices, lastModelIndices>>

\* await this.redis.get(redisKey) and what follows the reply up to the
\* next await: a count of 0 makes the pair invalid and getModel turns to
\* the next pair, or returns without a model after the last one.
IndexGet ==
    \E p \in DOMAIN inflight :
    \E call \in {inflight[p]} :
        /\ call.op = "getModel" /\ call.stage = "get"
        /\ LET c == call.cands[call.i]
               limit == Head(call.todo)
               resp == Get(counters, redisKey(call.api, c.key, c.model, limit))
               limitCount == IF resp # <<>> THEN resp[1]
                             ELSE limits[call.api][c.model][limit]
           IN  IF limitCount = 0
               THEN IF call.i = Len(call.cands)
                    THEN /\ inflight' = Put(p, Returned)
                         /\ last' = [NoCall EXCEPT !.op = "getModel", !.api = call.api,
                                                   !.key = c.key, !.isNull = TRUE]
                    ELSE /\ inflight' =
                              Put(p, [call EXCEPT
                                        !.i = @ + 1,
                                        !.todo = parsedModelLimits(
                                            limits[call.api][call.cands[call.i + 1].model])])
                         /\ last' = [NoCall EXCEPT !.op = "await"]
               ELSE /\ inflight' =
                         Put(p, IF resp = <<>> /\ limit \in DOMAIN customWindows
                                THEN [call EXCEPT !.stage = "setex",
                                                  !.limitCount = limitCount]
                                ELSE windowAccepted(call))
                    /\ last' = [NoCall EXCEPT !.op = "await"]
        /\ UNCHANGED <<metricsEnabled, now, counters, freezes, metrics, limits,
                       keyStrategy, modelStrategy, lastKeyIndices, lastModelIndices>>

\* await this.redis.setex(redisKey, duration, limitCount)
IndexSetex ==
    \E p \in DOMAIN inflight :
    \E call \in {inflight[p]} :
        /\ call.op = "getModel" /\ call.stage = "setex"
        /\ counters' = Setex(counters,
                             redisKey(call.api, call.cands[call.i].key,
                                      call.cands[call.i].model, Head(call.todo)),
                             customWindows[Head(call.todo)], call.limitCount, now)
        /\ inflight' = Put(p, windowAccepted(call))
        /\ last' = [NoCall EXCEPT !.op = "await"]
        /\ UNCHANGED <<metricsEnabled, now, freezes, metrics, limits,
                       keyStrategy, modelStrategy, lastKeyIndices, lastModelIndices>>

\* await this.redis.keys(keyPat) of getModel
IndexKeys ==
    \E p \in DOMAIN inflight :
    \E call \in {inflight[p]} :
        /\ call.op = "getModel" /\ call.stage = "keys"
        /\ inflight' = Put(p, [call EXCEPT
                                 !.stage = "decr",
                                 !.affected = Keys(counters, call.api,
                                                   call.cands[call.i].key,
                                                   call.cands[call.i].model)])
        /\ last' = [NoCall EXCEPT !.op = "await"]
        /\ UNCHANGED <<metricsEnabled, now, counters, freezes, metrics, limits,
                       keyStrategy, modelStrategy, lastKeyIndices, lastModelIndices>>

\* The loop of this.redis.decr(redisKey), not awaited, and the return of
\* the pair.
IndexDecr ==
    \E p \in DOMAIN inflight :
    \E call \in {inflight[p]} :
        /\ call.op = "getModel" /\ call.stage = "decr"
        /\ counters' = decrAffected(counters, call.affected)
        /\ inflight' = Put(p, Returned)
        /\ last' = [NoCall EXCEPT !.op = "getModel", !.api = call.api,
                                  !.key = call.cands[call.i].key,
                                  !.model = call.cands[call.i].model]
        /\ UNCHANGED <<metricsEnabled, now, freezes, metrics, limits,
                       keyStrategy, modelStrategy, lastKeyIndices, lastModelIndices>>

\* await this.redis.keys(redisKeyPat) of freezeModel
IndexFreezeKeys ==
    \E p \in DOMAIN inflight :
    \E call \in {inflight[p]} :
        /\ call.op = "freezeModel" /\ call.stage = "keys"
        /\ inflight' = Put(p, [call EXCEPT
                                 !.stage = "setex",
                                 !.affected = Keys(counters, call.api, call.cands[1].key,
                                                   call.cands[1].model)])
        /\ last' = [NoCall EXCEPT !.op = "await"]
        /\ UNCHANGED <<metricsEnabled, now, counters, freezes, metrics, limits,
                       keyStrategy, modelStrategy, lastKeyIndices, lastModelIndices>>

\* await this.redis.setex(redisKey, duration, 0) for the next of allKeys;
\* after the last one freezeModel completes.
IndexFreezeSetex ==
    \E p \in DOMAIN inflight :
    \E call \in {inflight[p]} :
        /\ call.op = "freezeModel" /\ call.stage = "setex"
        /\ IF call.affected = {}
           THEN /\ counters' = counters
                /\ freezes' = SetEx(freezes, <<call.cands[1].key, call.cands[1].model>>,
                                    call.duration, now)
                /\ inflight' = Put(p, Returned)
                /\ last' = [NoCall EXCEPT !.op = "freezeModel", !.api = call.api,
                                          !.key = call.cands[1].key,
                                          !.model = call.cands[1].model,
                                          !.size = call.duration]
           ELSE \E k \in call.affected :
                  /\ counters' = Setex(counters, k, call.duration, 0, now)
                  /\ freezes' = freezes
                  /\ inflight' = Put(p, [call EXCEPT !.affected = @ \ {k}])
                  /\ last' = [NoCall EXCEPT !.op = "await"]
        /\ UNCHANGED <<metricsEnabled, now, metrics, limits,
                       keyStrategy, modelStrategy, lastKeyIndices, lastModelIndices>>

\* The callers of src/index.js and the clock.
NextIndex ==
    \/ IndexStart
    \/ IndexGet
    \/ IndexSetex
    \/ IndexKeys
    \/ IndexDecr
    \/ IndexFreezeKeys
    \/ IndexFreezeSetex
    \/ Tick

SpecIndex == InitIndex /\ [][NextIndex]_vars

----------------------------------------------------------------------------
(* Vocabulary of the properties *)

\* The value GET reads for a window counter at time t: a missing key is 0.
CounterAt(ctrs, apiKey, modelName, window, t) ==
    IF <<apiKey, modelName, window, t - (t % customWindows[window])>> \in DOMAIN ctrs
    THEN ctrs[<<apiKey, modelName, window, t - (t % customWindows[window])>>].val
    ELSE 0

\* The value of a Redis counter key: a missing key is 0.
ValueOf(ctrs, k) == IF k \in DOMAIN ctrs THEN ctrs[k].val ELSE 0

\* The two stores hold the same count under every counter key.
SameCounts(c1, c2) ==
    \A k \in DOMAIN c1 \cup DOMAIN c2 : ValueOf(c1, k) = ValueOf(c2, k)

\* The last step was a direct checkAndIncrement call that did not throw.
Checked(l) == l.op = "checkAndIncrement" /\ ~l.threw

\* The limits of the model the last step was called for.
LimitsOf(l) == limits[l.api][l.model]

\* The longest-duration window among those a model configures.
LongestWindow(lim) ==
    CHOOSE w \in DOMAIN lim : \A v \in DOMAIN lim : customWindows[w] >= customWindows[v]

----------------------------------------------------------------------------
(* Limit evaluator *)

\* C1: with allowBorrowing = false and the pair not frozen, checkAndIncrement
\* returns isWithinLimits = true if and only if, for every window of
\* model.limits, the count after its increment (the count before the call
\* plus one, which is the used it reports) is at most the window's limit.
C1_AdmittedIffAllWithin ==
    [][(Checked(last') /\ ~last'.allowBorrowing
            /\ <<last'.key, last'.model>> \notin DOMAIN freezes)
        => /\ \A w \in DOMAIN LimitsOf(last') :
                 last'.calls[1].res.usage[w].used
                     = CounterAt(counters, last'.key, last'.model, w, now) + 1
           /\ last'.calls[1].res.isWithinLimits
                 <=> \A w \in DOMAIN LimitsOf(last') :
                        CounterAt(counters, last'.key, last'.model, w, now) + 1
                            <= LimitsOf(last')[w]]_vars

\* A call without borrowing is rejected with one window over its limit and
\* another window within its limit.
C1_Witness ==
    /\ Checked(last) /\ ~last.allowBorrowing /\ ~last.calls[1].frozen
    /\ ~last.calls[1].res.isWithinLimits
    /\ \E w \in DOMAIN LimitsOf(last) : last.calls[1].res.usage[w].used > LimitsOf(last)[w]
    /\ \E w \in DOMAIN LimitsOf(last) : last.calls[1].res.usage[w].used <= LimitsOf(last)[w]

\* C2: a checkAndIncrement that returns isWithinLimits = false leaves every
\* window counter at the value it had before the call, the windows that
\* were not over their limit included.
C2_RejectedRestoresCounters ==
    [][(Checked(last') /\ ~last'.calls[1].res.isWithinLimits)
        => SameCounts(counters', counters)]_vars

\* A rejected call on a pair that is not frozen, one of whose windows was
\* within its limit after the increment and has a count above 0.
C2_Witness ==
    /\ Checked(last) /\ ~last.calls[1].frozen /\ ~last.calls[1].res.isWithinLimits
    /\ \E w \in DOMAIN LimitsOf(last) :
          /\ last.calls[1].res.usage[w].used <= LimitsOf(last)[w]
          /\ CounterAt(counters, last.key, last.model, w, now)
                = last.calls[1].res.usage[w].used - 1
          /\ CounterAt(counters, last.key, last.model, w, now) > 0

\* C3: with allowBorrowing = true, when the count after the increment is over
\* the limit of some window and of no final window (the window the code
\* never borrows from, "month"), checkAndIncrement returns borrowed = true
\* and isWithinLimits = true and keeps every increment, so that the counter
\* stays above the limit.
C3_BorrowedKeepsIncrements ==
    [][(/\ Checked(last') /\ last'.allowBorrowing
        /\ <<last'.key, last'.model>> \notin DOMAIN freezes
        /\ \E w \in DOMAIN LimitsOf(last') :
              CounterAt(counters, last'.key, last'.model, w, now) + 1 > LimitsOf(last')[w]
        /\ \A w \in DOMAIN LimitsOf(last') :
              CounterAt(counters, last'.key, last'.model, w, now) + 1 > LimitsOf(last')[w]
                  => w # "month")
        => /\ last'.calls[1].res.borrowed
           /\ last'.calls[1].res.isWithinLimits
           /\ \A w \in DOMAIN LimitsOf(last') :
                 CounterAt(counters', last'.key, last'.model, w, now)
                     = CounterAt(counters, last'.key, last'.model, w, now) + 1
           /\ \E w \in DOMAIN LimitsOf(last') :
                 CounterAt(counters', last'.key, last'.model, w, now) > LimitsOf(last')[w]]_vars

\* A borrowing call on a model with a "month" window: another window is over
\* its limit, "month" is not, and the stored counter is above the limit.
C3_Witness ==
    /\ Checked(last) /\ last.allowBorrowing /\ last.calls[1].res.borrowed
    /\ "month" \in DOMAIN LimitsOf(last)
    /\ last.calls[1].res.usage["month"].used <= LimitsOf(last)["month"]
    /\ \E w \in DOMAIN LimitsOf(last) :
          CounterAt(counters, last.key, last.model, w, now) > LimitsOf(last)[w]

\* C4: exceeding the limit of the longest-duration window a model configures
\* always yields isWithinLimits = false, whatever allowBorrowing is, also
\* for a model with no "month" window and for a model whose longest window
\* is a custom window.
C4_LongestWindowNeverBorrowed ==
    (Checked(last) /\ ~last.calls[1].frozen
        /\ last.calls[1].res.usage[LongestWindow(LimitsOf(last))].used
              > LimitsOf(last)[LongestWindow(LimitsOf(last))])
    => ~last.calls[1].res.isWithinLimits

----------------------------------------------------------------------------
(* Freeze guard and candidate selection *)

\* The last step was a getModel or getBatch call for a known API.
Selected(l) == l.op \in {"getModel", "getBatch"} /\ findApi(l.api) # <<>>

\* The number of (key, model) pairs of the API the last step was called for.
PairCount(l) == Len(findApi(l.api)[1].keys) * Len(findApi(l.api)[1].models)

\* The counter keys of one (key, model) pair.
KeysOfPair(ctrs, apiKey, modelName) ==
    {k \in DOMAIN ctrs : k[1] = apiKey /\ k[2] = modelName}

\* A recorded checkAndIncrement call returned what the frozen branch returns.
FrozenReturn(c) == ~c.res.isWithinLimits /\ DOMAIN c.res.usage = {}

\* The pair is rejected in the given state: it is frozen, or the increment
\* takes one of its windows over the limit (a window other than "month"
\* does not count when the call may borrow).
RejectedIn(ctrs, frz, lim, apiKey, modelName, allowBorrowing, t) ==
    \/ <<apiKey, modelName>> \in DOMAIN frz
    \/ \E w \in DOMAIN lim :
          /\ CounterAt(ctrs, apiKey, modelName, w, t) + 1 > lim[w]
          /\ ~allowBorrowing \/ w = "month"

\* C5: while a freeze flag exists for (apiKey, modelName), a checkAndIncrement
\* for the pair, called directly or from getModel or getBatch, returns
\* isWithinLimits = false with empty usage and changes no window counter of
\* the pair and no metric counter; getModel and getBatch then go on to the
\* next candidate.
C5_FrozenPairUntouched ==
    [][/\ (Checked(last') /\ <<last'.key, last'.model>> \in DOMAIN freezes)
            => /\ FrozenReturn(last'.calls[1])
               /\ counters' = counters
               /\ metrics' = metrics
       /\ Selected(last')
            => \A j \in DOMAIN last'.calls :
                  <<last'.calls[j].key, last'.calls[j].model>> \in DOMAIN freezes
                  => /\ FrozenReturn(last'.calls[j])
                     /\ KeysOfPair(counters', last'.calls[j].key, last'.calls[j].model)
                           = KeysOfPair(counters, last'.calls[j].key, last'.calls[j].model)
                     /\ \A k \in KeysOfPair(counters, last'.calls[j].key,
                                            last'.calls[j].model) :
                           counters'[k] = counters[k]
                     /\ metrics' = metrics
                     /\ \A i \in DOMAIN last'.results :
                           <<last'.results[i].key, last'.results[i].model>>
                               # <<last'.calls[j].key, last'.calls[j].model>>
                     /\ j < PairCount(last') => j < Len(last'.calls)]_vars

\* getModel met a frozen pair that had quota left in every window, went on
\* and returned a later pair.
C5_Witness ==
    /\ last.op = "getModel" /\ Len(last.calls) >= 2 /\ Len(last.results) = 1
    /\ <<last.calls[1].key, last.calls[1].model>> \in DOMAIN freezes
    /\ \A w \in DOMAIN limits[last.api][last.calls[1].model] :
          CounterAt(counters, last.calls[1].key, last.calls[1].model, w, now)
              < limits[last.api][last.calls[1].model][w]

\* The position of an item in a list without repetitions.
IndexIn(items, x) == CHOOSE i \in DOMAIN items : items[i] = x

\* Pair a comes before pair b when models are the outer loop and keys the
\* inner loop.
Earlier(l, aModel, aKey, bModel, bKey) ==
    \/ IndexIn(l.orderedModels, aModel) < IndexIn(l.orderedModels, bModel)
    \/ /\ aModel = bModel
       /\ IndexIn(l.orderedKeys, aKey) < IndexIn(l.orderedKeys, bKey)

\* C6: getModel evaluates the pairs with models in the outer loop and keys in
\* the inner loop and returns the first pair that is admitted: with the
\* ascending strategies, every key of each earlier model and each earlier
\* key of the returned model was frozen or over limit when it was evaluated.
C6_FirstAdmittedInModelMajorOrder ==
    [][(last'.op = "getModel" /\ findApi(last'.api) # <<>>
            /\ keyStrategy = "ascending" /\ modelStrategy = "ascending")
        => /\ last'.orderedModels = findApi(last'.api)[1].models
           /\ last'.orderedKeys = findApi(last'.api)[1].keys
           /\ \A p, q \in DOMAIN last'.calls :
                 p < q => Earlier(last', last'.calls[p].model, last'.calls[p].key,
                                  last'.calls[q].model, last'.calls[q].key)
           /\ \A i \in DOMAIN last'.results :
                 /\ last'.results[i].key = last'.calls[Len(last'.calls)].key
                 /\ last'.results[i].model = last'.calls[Len(last'.calls)].model
                 /\ ~RejectedIn(counters, freezes, limits[last'.api][last'.results[i].model],
                                last'.results[i].key, last'.results[i].model,
                                last'.allowBorrowing, now)
                 /\ \A m \in Range(last'.orderedModels) : \A k \in Range(last'.orderedKeys) :
                       Earlier(last', m, k, last'.results[i].model, last'.results[i].key)
                       => /\ \E p \in DOMAIN last'.calls :
                                last'.calls[p].model = m /\ last'.calls[p].key = k
                          /\ RejectedIn(counters, freezes, limits[last'.api][m], k, m,
                                        last'.allowBorrowing, now)]_vars

\* getModel returned the first key of the second model after it had tried
\* both keys of the first model.
C6_Witness ==
    /\ last.op = "getModel" /\ Len(last.results) = 1 /\ Len(last.calls) = 3
    /\ last.results[1].model = findApi(last.api)[1].models[2]
    /\ last.results[1].key = findApi(last.api)[1].keys[1]

\* The calls of the last step that admitted their pair, in order.
Admitted(l) == SelectSeq(l.calls, LAMBDA c : c.res.isWithinLimits)

\* C7: for a known API, getModel and getBatch raise no error and return null
\* exactly when no candidate was admitted during the full iteration (every
\* pair frozen or over limit); otherwise they return the admitted pairs.
C7_NullIffNoneAdmitted ==
    Selected(last)
    => /\ ~last.threw
       /\ last.isNull <=> Admitted(last) = <<>>
       /\ last.isNull
            => /\ Len(last.calls) = PairCount(last)
               /\ \A j \in DOMAIN last.calls :
                     \/ last.calls[j].frozen
                     \/ \E w \in DOMAIN last.calls[j].res.usage :
                           last.calls[j].res.usage[w].used
                               > limits[last.api][last.calls[j].model][w]
       /\ Len(last.results) = Len(Admitted(last))
       /\ \A i \in DOMAIN last.results :
             /\ last.results[i].key = Admitted(last)[i].key
             /\ last.results[i].model = Admitted(last)[i].model
             /\ last.results[i].limits = Admitted(last)[i].res.usage

\* getBatch returned null after it had evaluated every pair, one of them
\* frozen and one over limit.
C7_Witness ==
    /\ last.op = "getBatch" /\ last.isNull /\ Len(last.calls) = PairCount(last)
    /\ \E j \in DOMAIN last.calls : last.calls[j].frozen
    /\ \E j \in DOMAIN last.calls : ~last.calls[j].frozen

\* How many tuples of the last step's result name the pair.
TimesReturned(l, apiKey, modelName) ==
    Cardinality({i \in DOMAIN l.results :
                    l.results[i].key = apiKey /\ l.results[i].model = modelName})

\* C8: getBatch(apiName, size) returns at most size tuples and evaluates no
\* further candidate once size tuples are collected; afterwards each window
\* counter of a returned pair is one higher for each tuple that names it
\* and every other counter has the value it had before.
C8_BatchSizeAndNetIncrements ==
    [][(last'.op = "getBatch" /\ findApi(last'.api) # <<>>)
        => /\ Len(last'.results) <= last'.size
           /\ Len(last'.results) = last'.size
                 => last'.calls[Len(last'.calls)].res.isWithinLimits
           /\ \A i \in DOMAIN last'.results :
                 \A w \in DOMAIN limits[last'.api][last'.results[i].model] :
                    CounterAt(counters', last'.results[i].key, last'.results[i].model, w, now)
                       = CounterAt(counters, last'.results[i].key,
                                   last'.results[i].model, w, now) + 1
           /\ \A k \in DOMAIN counters \cup DOMAIN counters' :
                 ValueOf(counters', k)
                    = ValueOf(counters, k) + TimesReturned(last', k[1], k[2])]_vars

\* getBatch filled its batch after a rejected candidate and left later
\* candidates unevaluated.
C8_Witness ==
    /\ last.op = "getBatch" /\ Len(last.results) = last.size /\ last.size > 1
    /\ Len(last.calls) > Len(last.results)
    /\ Len(last.calls) < PairCount(last)

\* C9: borrowing is never used in batch mode: every tuple getBatch returns
\* has borrowed = false and, for every configured window of its model,
\* used <= limit.
C9_BatchNeverBorrows ==
    (last.op = "getBatch" /\ findApi(last.api) # <<>>)
    => \A i \in DOMAIN last.results :
          /\ ~last.results[i].borrowed
          /\ DOMAIN last.results[i].limits = DOMAIN limits[last.api][last.results[i].model]
          /\ \A w \in DOMAIN limits[last.api][last.results[i].model] :
                last.results[i].limits[w].used
                    <= limits[last.api][last.results[i].model][w]

\* getBatch returned a pair after it had rejected one that a borrowing call
\* would have admitted: no "month" window of the rejected pair was over.
C9_Witness ==
    /\ last.op = "getBatch" /\ Len(last.results) >= 1
    /\ \E j \in DOMAIN last.calls :
          /\ ~last.calls[j].frozen /\ ~last.calls[j].res.isWithinLimits
          /\ \A w \in DOMAIN last.calls[j].res.usage :
                last.calls[j].res.usage[w].used > limits[last.api][last.calls[j].model][w]
                    => w # "month"

----------------------------------------------------------------------------
(* Selection strategy *)

\* The cursor of the API in a cursor table: -1 before the first call.
CursorOf(indices, apiName) ==
    IF apiName \in DOMAIN indices THEN indices[apiName] ELSE 0 - 1

\* The list is the configured list read cyclically from position from
\* (counted from 0), every item once.
RotatedFrom(ordered, items, from) ==
    /\ Len(ordered) = Len(items)
    /\ \A i \in 1..Len(items) : ordered[i] = items[((from + i - 1) % Len(items)) + 1]
    /\ \A x \in Range(items) : Cardinality({i \in DOMAIN ordered : ordered[i] = x}) = 1

\* C10: with the round-robin strategy and N >= 1 items, each call of
\* getOrderedItems for (apiName, dimension) advances the stored cursor by
\* one modulo N (the first call puts it at 0) and returns the configured
\* list rotated to start at the new cursor, every item exactly once, so
\* that consecutive calls start at consecutive positions of the cycle (a
\* call that directly follows a call for the same list starts one position
\* after it, the last position being followed by the first).
C10_RoundRobinAdvancesByOne ==
    [][/\ (last'.op = "getOrderedItems" /\ last'.type = "key"
             /\ keyStrategy = "round-robin")
          => /\ CursorOf(lastKeyIndices', last'.api)
                   = (CursorOf(lastKeyIndices, last'.api) + 1)
                        % Len(findApi(last'.api)[1].keys)
             /\ last'.api \notin DOMAIN lastKeyIndices
                   => CursorOf(lastKeyIndices', last'.api) = 0
             /\ RotatedFrom(last'.orderedKeys, findApi(last'.api)[1].keys,
                            CursorOf(lastKeyIndices', last'.api))
             /\ \A a \in DOMAIN lastKeyIndices \ {last'.api} :
                   lastKeyIndices'[a] = lastKeyIndices[a]
             /\ (last.op = "getOrderedItems" /\ last.type = "key"
                   /\ last.api = last'.api)
                   => IndexIn(findApi(last'.api)[1].keys, last'.orderedKeys[1])
                        = (IndexIn(findApi(last'.api)[1].keys, last.orderedKeys[1])
                             % Len(findApi(last'.api)[1].keys)) + 1
       /\ (last'.op = "getOrderedItems" /\ last'.type = "model"
             /\ modelStrategy = "round-robin")
          => /\ CursorOf(lastModelIndices', last'.api)
                   = (CursorOf(lastModelIndices, last'.api) + 1)
                        % Len(findApi(last'.api)[1].models)
             /\ last'.api \notin DOMAIN lastModelIndices
                   => CursorOf(lastModelIndices', last'.api) = 0
             /\ RotatedFrom(last'.orderedModels, findApi(last'.api)[1].models,
                            CursorOf(lastModelIndices', last'.api))
             /\ \A a \in DOMAIN lastModelIndices \ {last'.api} :
                   lastModelIndices'[a] = lastModelIndices[a]
             /\ (last.op = "getOrderedItems" /\ last.type = "model"
                   /\ last.api = last'.api)
                   => IndexIn(findApi(last'.api)[1].models, last'.orderedModels[1])
                        = (IndexIn(findApi(last'.api)[1].models, last.orderedModels[1])
                             % Len(findApi(last'.api)[1].models)) + 1]_vars

\* A round-robin call for a list of three keys wrapped around: it returned
\* the list from its first item again, the cursor back at 0, while the
\* cursor of the other API stayed at 1.
C10_Witness ==
    /\ last.op = "getOrderedItems" /\ last.type = "key" /\ keyStrategy = "round-robin"
    /\ Len(findApi(last.api)[1].keys) = 3
    /\ last.orderedKeys = findApi(last.api)[1].keys
    /\ CursorOf(lastKeyIndices, last.api) = 0
    /\ \E a \in DOMAIN lastKeyIndices : lastKeyIndices[a] = 1

----------------------------------------------------------------------------
(* Outcome metrics *)

\* The outcome of an attempt as a metric type.
OutcomeType(res) ==
    IF ~res.isWithinLimits THEN "limit_reached"
    ELSE IF res.borrowed THEN "borrowed" ELSE "success"

\* C11: with metrics enabled, every checkAndIncrement on a pair that is not
\* frozen records exactly one outcome metric for (apiKey, modelName):
\* limit_reached when the attempt is rejected, borrowed when it is admitted
\* by borrowing, success when it is admitted without borrowing; the metric
\* counter of that type is one higher after the call and no other metric
\* counter changes.
C11_OneOutcomeMetricPerAttempt ==
    [][(Checked(last') /\ ~last'.calls[1].frozen /\ metricsEnabled)
        => \A k \in DOMAIN metrics \cup DOMAIN metrics'
                    \cup {getMetricKey(last'.key, last'.model,
                                       OutcomeType(last'.calls[1].res), now)} :
              ValueOf(metrics', k)
                 = ValueOf(metrics, k)
                    + (IF k = getMetricKey(last'.key, last'.model,
                                           OutcomeType(last'.calls[1].res), now)
                       THEN 1 ELSE 0)]_vars

----------------------------------------------------------------------------
(* Registry *)

\* The windows an updateLimits call names.
NamedWindows(newLimits) == {newLimits[i].window : i \in DOMAIN newLimits}

\* The call of the last step named an API and a model of the registry.
KnownModel(l) ==
    \E i \in DOMAIN Apis : Apis[i].name = l.api /\ l.model \in Range(Apis[i].models)

\* C12: a successful updateLimits(apiName, modelName, newLimits) sets the
\* limit of exactly the windows named in newLimits to the given values and
\* leaves the limit of every other window of that model, and all limits of
\* every other model, unchanged.
C12_UpdateLimitsIsPartial ==
    [][(last'.op = "updateLimits" /\ ~last'.threw)
        => /\ \A i \in DOMAIN last'.newLimits :
                 limits'[last'.api][last'.model][last'.newLimits[i].window]
                    = (IF last'.newLimits[i].limit.nan THEN "NaN"
                       ELSE last'.newLimits[i].limit.v)
           /\ DOMAIN limits'[last'.api][last'.model]
                 = DOMAIN limits[last'.api][last'.model] \cup NamedWindows(last'.newLimits)
           /\ \A w \in DOMAIN limits[last'.api][last'.model]
                         \ NamedWindows(last'.newLimits) :
                 limits'[last'.api][last'.model][w] = limits[last'.api][last'.model][w]
           /\ DOMAIN limits' = DOMAIN limits
           /\ \A a \in DOMAIN limits :
                 /\ DOMAIN limits'[a] = DOMAIN limits[a]
                 /\ \A m \in DOMAIN limits[a] :
                       <<a, m>> # <<last'.api, last'.model>>
                       => limits'[a][m] = limits[a][m]]_vars

\* updateLimits('api1', 'm1', {minute: 2}) returned after the pair had been
\* used: minute is 2 and quarter is the 1 it was configured with.
C12_Witness ==
    /\ last.op = "updateLimits" /\ ~last.threw /\ last.api = "api1"
    /\ limits["api1"]["m1"]["minute"] = 2
    /\ limits["api1"]["m1"]["quarter"] = 1
    /\ counters # <<>>

\* The entry names no registered window, or its value is not a non-negative
\* number.
BadEntry(e) ==
    \/ e.window \notin DOMAIN customWindows
    \/ e.limit.type # "number"
    \/ e.limit.nan
    \/ e.limit.v < 0

\* C13: updateLimits fails when any entry of newLimits names an unregistered
\* window or carries a value that is not a non-negative number, and on
\* failure no limit of the model is changed, also when other entries of the
\* same newLimits, before or after the bad one, are valid.
C13_BadEntryFailsWithoutChange ==
    [][(last'.op = "updateLimits" /\ KnownModel(last')
            /\ \E i \in DOMAIN last'.newLimits : BadEntry(last'.newLimits[i]))
        => /\ last'.threw
           /\ limits' = limits]_vars

\* C18: getModel, getBatch and freezeModel called with an API name that is
\* not in the registry, and updateLimits called with an unknown API or model
\* name, raise a not-found error and change nothing: no counter, no metric,
\* no freeze flag, no limit and no rotation cursor.
C18_NotFoundChangesNothing ==
    [][(\/ /\ last'.op \in {"getModel", "getBatch", "freezeModel"}
           /\ \A i \in DOMAIN Apis : Apis[i].name # last'.api
        \/ /\ last'.op = "updateLimits"
           /\ ~KnownModel(last'))
        => /\ last'.threw
           /\ last'.op = "updateLimits"
                 => last'.error \in {"API not found", "Model not found"}
           /\ UNCHANGED <<inflight, metricsEnabled, now, counters, freezes, metrics, limits, keyStrategy,
                          modelStrategy, lastKeyIndices, lastModelIndices>>]_vars

\* updateLimits was called for a model name another API has, with counters,
\* a freeze flag and a metric in Redis, and failed.
C18_Witness ==
    /\ last.op = "updateLimits" /\ last.error = "Model not found"
    /\ counters # <<>> /\ freezes # <<>> /\ metrics # <<>>

----------------------------------------------------------------------------
(* Strategy setters *)

\* C14: setKeyStrategy and setModelStrategy called with a name outside
\* {ascending, random, round-robin} raise an error and leave the active
\* strategy of both dimensions and every rotation cursor unchanged.
C14_InvalidStrategyRejected ==
    [][(last'.op \in {"setKeyStrategy", "setModelStrategy"}
            /\ last'.strategy \notin {"ascending", "random", "round-robin"})
        => /\ last'.threw
           /\ keyStrategy' = keyStrategy
           /\ modelStrategy' = modelStrategy
           /\ lastKeyIndices' = lastKeyIndices
           /\ lastModelIndices' = lastModelIndices]_vars

\* setKeyStrategy was called with an unknown name and threw while the
\* strategies were not the defaults and both cursor tables had entries.
C14_Witness ==
    /\ last.op = "setKeyStrategy" /\ last.threw
    /\ last.strategy \notin {"ascending", "random", "round-robin"}
    /\ keyStrategy = "round-robin" /\ modelStrategy = "random"
    /\ lastKeyIndices # <<>> /\ lastModelIndices # <<>>

----------------------------------------------------------------------------
(* Window keyspace *)

\* C15: for every registered window with duration d and every integer time
\* t in seconds, windowTimestamp equals t - (t mod d): it is the multiple of
\* d with windowTimestamp <= t < windowTimestamp + d, the same value for the
\* first and the last second of that span, and exactly d larger in the next
\* span.
C15_TimestampIsSpanStart ==
    (last.op = "getWindowTimestamp" /\ ~last.threw)
    => /\ last.value = now - (now % customWindows[last.window])
       /\ last.value % customWindows[last.window] = 0
       /\ last.value <= now
       /\ now < last.value + customWindows[last.window]
       /\ getWindowTimestamp(last.window, last.value) = last.value
       /\ getWindowTimestamp(last.window, last.value + customWindows[last.window] - 1)
             = last.value
       /\ getWindowTimestamp(last.window, last.value + customWindows[last.window])
             = last.value + customWindows[last.window]

\* getWindowTimestamp was called in the last second of a later span of the
\* month window.
C15_Witness ==
    /\ last.op = "getWindowTimestamp" /\ last.window = "month"
    /\ last.value > 0
    /\ now = last.value + customWindows["month"] - 1

\* C16 as stated: for every registered window with duration d and every
\* time t, windowExpiry(window) is in [0, d).
C16_ExpiryBelowDuration ==
    (last.op = "getWindowExpiry" /\ ~last.threw)
    => /\ 0 <= last.value
       /\ last.value < customWindows[last.window]

\* C16 amended: windowExpiry(window) is the time to the next boundary of the
\* window, d - (t mod d): it is in (0, d], and it is d exactly when t is at
\* a boundary.
C16_ExpiryIsTimeToNextBoundary ==
    (last.op = "getWindowExpiry" /\ ~last.threw)
    => /\ 0 < last.value
       /\ last.value <= customWindows[last.window]
       /\ (now + last.value) % customWindows[last.window] = 0
       /\ last.value = customWindows[last.window]
             <=> now % customWindows[last.window] = 0

\* getWindowExpiry was called at the start of a later span and returned the
\* whole duration.
C16_Witness ==
    /\ last.op = "getWindowExpiry" /\ ~last.threw
    /\ now > 0 /\ now % customWindows[last.window] = 0
    /\ last.value = customWindows[last.window]

----------------------------------------------------------------------------
(* Time buckets *)

\* The counter key belongs to the bucket of its window that time t is in.
InBucket(k, t) == k[4] <= t /\ t < k[4] + customWindows[k[3]]

\* The counter keys of the pair for the window, for every time bucket.
BucketsOf(ctrs, apiKey, modelName, window) ==
    {k \in DOMAIN ctrs : k[1] = apiKey /\ k[2] = modelName /\ k[3] = window}

\* C17: counts accumulated in one time bucket of a window are never counted
\* against another bucket: an attempt observes used = 1 for a window when
\* no count was recorded in the bucket the clock is in, whatever the other
\* buckets of the window hold (the first attempt after a window boundary),
\* and one more than the bucket's count otherwise (a longer window whose
\* boundary has not passed keeps its accumulated count); the counters of
\* the other buckets are left as they are.
C17_BucketsNeverAlias ==
    [][(Checked(last') /\ ~last'.calls[1].frozen)
        => \A w \in DOMAIN LimitsOf(last') :
              /\ \A k \in BucketsOf(counters, last'.key, last'.model, w) :
                    IF InBucket(k, now)
                    THEN last'.calls[1].res.usage[w].used = counters[k].val + 1
                    ELSE k \in DOMAIN counters' /\ counters'[k] = counters[k]
              /\ (\A k \in BucketsOf(counters, last'.key, last'.model, w) :
                     ~InBucket(k, now))
                    => last'.calls[1].res.usage[w].used = 1]_vars

\* The first attempt after a minute boundary: the counter of the previous
\* minute is still in Redis with a count, the attempt observed used = 1 for
\* the minute window and the accumulated count plus one for the quarter
\* window.
C17_Witness ==
    /\ Checked(last) /\ ~last.calls[1].frozen
    /\ DOMAIN LimitsOf(last) = {"minute", "quarter"}
    /\ \E k \in BucketsOf(counters, last.key, last.model, "minute") :
          ~InBucket(k, now) /\ counters[k].val >= 1
    /\ last.calls[1].res.usage["minute"].used = 1
    /\ last.calls[1].res.usage["quarter"].used = 2

----------------------------------------------------------------------------
(* Unregistered windows *)

\* C19: checkAndIncrement for a model whose limits name a window that is
\* not registered, on a pair that is not frozen, fails with an error and
\* mutates no counter, also for the registered windows that precede the
\* unknown one in model.limits.
C19_UnknownWindowFailsWithoutCount ==
    [][(/\ last'.op = "checkAndIncrement"
        /\ <<last'.key, last'.model>> \notin DOMAIN freezes
        /\ \E w \in DOMAIN limits[last'.api][last'.model] :
              w \notin DOMAIN customWindows)
        => /\ last'.threw
           /\ counters' = counters]_vars

\* The call failed for a model that also has a limit for the registered
\* minute window, while counters of the same key were in Redis.
C19_Witness ==
    /\ last.op = "checkAndIncrement" /\ last.threw
    /\ "minute" \in DOMAIN limits[last.api][last.model]
    /\ \E k \in DOMAIN counters : k[1] = last.key /\ k[3] = "minute"

----------------------------------------------------------------------------
(* Metrics switch *)

\* C20: when metrics are disabled, no sequence of operations creates or
\* changes any metric counter, and getMetrics returns null instead of
\* counts; when they are enabled, getMetrics returns success, limitReached
\* and borrowed, each the value of its counter and 0 when the counter is
\* absent.
C20_MetricsSwitch ==
    /\ ~metricsEnabled
          => /\ metrics = <<>>
             /\ (last.op = "getMetrics" /\ ~last.threw) => last.isNull
    /\ (metricsEnabled /\ last.op = "getMetrics" /\ ~last.threw)
          => /\ ~last.isNull
             /\ DOMAIN last.counts = {"success", "limitReached", "borrowed"}
             /\ last.counts.success
                   = ValueOf(metrics, <<last.key, last.model, "success", now - (now % day)>>)
             /\ last.counts.limitReached
                   = ValueOf(metrics, <<last.key, last.model, "limit_reached",
                                        now - (now % day)>>)
             /\ last.counts.borrowed
                   = ValueOf(metrics, <<last.key, last.model, "borrowed", now - (now % day)>>)

\* updateMetrics was called with metrics disabled, after attempts had been
\* counted against the limits.
C20_Witness ==
    /\ ~metricsEnabled /\ last.op = "updateMetrics" /\ last.type = "borrowed"
    /\ counters # <<>>

----------------------------------------------------------------------------
(* Concurrent callers *)

\* The configured limit a counter key is evaluated against: the limit of the
\* key's window in the model of that name (m1 of api1 and m1 of api2 count
\* under the same keys and configure the same minute limit).
LimitOfKey(k) ==
    LET a == CHOOSE a \in DOMAIN limits :
                 k[2] \in DOMAIN limits[a] /\ k[3] \in DOMAIN limits[a][k[2]]
    IN  limits[a][k[2]][k[3]]

\* The calls in progress that have incremented a counter key and have not
\* decremented it again.
Holders(k) == {p \in Running : k \in inflight[p].held}

\* C21: under concurrent callers on the same (key, model, window, bucket),
\* without borrowing and with limits unchanged, the overshoot of a stored
\* counter is bounded: in every state the counter is at most the limit plus
\* the number of attempts that have incremented it and not yet completed
\* their rollback, and with no attempt in flight it is at most the limit.
C21_OvershootBounded ==
    \A k \in DOMAIN counters :
        /\ counters[k].val <= LimitOfKey(k) + Cardinality(Holders(k))
        /\ Running = {} => counters[k].val <= LimitOfKey(k)

\* Two attempts in flight have both incremented a counter past its limit.
C21_Witness ==
    \E k \in DOMAIN counters :
        /\ counters[k].val > LimitOfKey(k)
        /\ Cardinality(Holders(k)) >= 2

\* The calls in progress that iterate over candidates.
Selecting == {p \in Running : inflight[p].op \in {"getModel", "getBatch"}}

\* C24: within one getModel or getBatch call candidates are evaluated one at
\* a time: the increments a call has made and not taken back are all on the
\* candidate it is evaluating, and it has none when it turns to a candidate,
\* so the increment of a candidate is issued only after the evaluation of the
\* previous one, rollback included, has completed.
C24_OneCandidateAtATime ==
    \A p \in Selecting :
        /\ \A k \in inflight[p].held :
               k[1] = Candidate(p).key /\ k[2] = Candidate(p).model
        /\ inflight[p].stage = "isFrozen" => inflight[p].held = {}

\* A call holds an increment on its second or later candidate while the
\* counter of the candidate before it is back at its limit.
C24_Witness ==
    \E p \in Selecting :
        /\ inflight[p].i > 1
        /\ inflight[p].held # {}
        /\ \A w \in DOMAIN CandidateLimits(p) :
               ValueOf(counters, getKey(inflight[p].cands[inflight[p].i - 1].key,
                                        inflight[p].cands[inflight[p].i - 1].model,
                                        w, now))
                   = CandidateLimits(p)[w]

----------------------------------------------------------------------------
(* Freeze flags over time *)

\* C22: a freeze flag set by freezeModel(key, model, duration) lives for
\* duration seconds from the last freezeModel call for the pair and then
\* disappears on its own: no flag is left past its time, a step removes a
\* flag only when the clock has moved to or past the flag's time, and a
\* checkAndIncrement for a pair without a flag is evaluated against the
\* limits (its usage has every window of the model).
C22_FreezeExpiresOnItsOwn ==
    [][/\ (last'.op = "freezeModel" /\ ~last'.threw)
            => /\ <<last'.key, last'.model>> \in DOMAIN freezes'
               /\ freezes'[<<last'.key, last'.model>>] = now + last'.size
       /\ \A k \in DOMAIN freezes' : freezes'[k] >= now'
       /\ \A k \in DOMAIN freezes \ DOMAIN freezes' :
              now' > now /\ freezes[k] <= now'
       /\ (Checked(last') /\ <<last'.key, last'.model>> \notin DOMAIN freezes)
            => DOMAIN last'.calls[1].res.usage = DOMAIN LimitsOf(last')]_vars

\* checkAndIncrement admits (k1, m1) with quarter used = 1 at time 60 while
\* (k2, m1) has a quarter count: the ascending order reaches k2 only past a
\* k1 that is rejected, k1 had no count, so it was frozen at time 0 or 30,
\* and the flag is gone now, which a flag set at 30 would not be.
C22_Witness ==
    /\ now = 60
    /\ last.op = "checkAndIncrement" /\ ~last.threw
    /\ last.key = "k1" /\ last.model = "m1"
    /\ last.calls[1].res.isWithinLimits
    /\ last.calls[1].res.usage["quarter"].used = 1
    /\ <<"k1", "m1">> \notin DOMAIN freezes
    /\ ValueOf(counters, <<"k2", "m1", "quarter", 0>>) = 1

----------------------------------------------------------------------------
(* The counters across one getModel call *)

\* The counter keys of the windows the pair's model configures, in the
\* buckets of time t.
WindowKeys(lims, apiKey, modelName, t) ==
    {getKey(apiKey, modelName, w, t) : w \in DOMAIN lims[modelName]}

\* C23: with no concurrent caller and no bucket rollover, after getModel
\* returns pair (k, m) every configured window counter of (k, m) is exactly
\* one higher than before the call and every other counter (of the
\* candidates tried and rejected before it, and of those not tried) equals
\* its value before the call; after getModel returns no availability every
\* counter equals its value before the call.
C23_GetModelCountsOnlyReturnedPair ==
    [][(last'.op = "getModel" /\ ~last'.threw)
          => IF last'.isNull
             THEN SameCounts(counters, counters')
             ELSE \A k \in DOMAIN counters \cup DOMAIN counters' :
                     ValueOf(counters', k)
                        = ValueOf(counters, k)
                            + (IF k \in WindowKeys(limits[last'.api],
                                                   last'.results[1].key,
                                                   last'.results[1].model, now)
                               THEN 1 ELSE 0)]_vars

\* getModel returned a pair after a candidate before it had been incremented
\* over a limit and rolled back.
C23_Witness ==
    /\ last.op = "getModel" /\ ~last.threw /\ ~last.isNull
    /\ \E j \in DOMAIN last.calls :
           /\ ~last.calls[j].res.isWithinLimits
           /\ ~FrozenReturn(last.calls[j])
    /\ \A k \in WindowKeys(limits[last.api], last.results[1].key,
                            last.results[1].model, now) : ValueOf(counters, k) >= 1

----------------------------------------------------------------------------
(* The strategy setters and the cursors *)

\* The step is a strategy setter called with a valid name.
ValidSet(l, op) == l.op = op /\ l.strategy \in validStrategies

\* C25: setKeyStrategy and setModelStrategy called with a valid name change
\* only the strategy of their own dimension, to that name, and leave every
\* rotation cursor unchanged; the getOrderedItems call that follows a switch
\* (back) to round-robin starts one position after the stored cursor instead
\* of at the first item.
C25_SetterKeepsCursors ==
    [][/\ ValidSet(last', "setKeyStrategy")
            => /\ ~last'.threw
               /\ keyStrategy' = last'.strategy
               /\ modelStrategy' = modelStrategy
               /\ lastKeyIndices' = lastKeyIndices
               /\ lastModelIndices' = lastModelIndices
       /\ ValidSet(last', "setModelStrategy")
            => /\ ~last'.threw
               /\ modelStrategy' = last'.strategy
               /\ keyStrategy' = keyStrategy
               /\ lastKeyIndices' = lastKeyIndices
               /\ lastModelIndices' = lastModelIndices
       /\ (ValidSet(last, "setKeyStrategy") /\ last.strategy = "round-robin"
             /\ last'.op = "getOrderedItems" /\ last'.type = "key"
             /\ last'.api \in DOMAIN lastKeyIndices)
            => RotatedFrom(last'.orderedKeys, findApi(last'.api)[1].keys,
                           (lastKeyIndices[last'.api] + 1)
                               % Len(findApi(last'.api)[1].keys))
       /\ (ValidSet(last, "setModelStrategy") /\ last.strategy = "round-robin"
             /\ last'.op = "getOrderedItems" /\ last'.type = "model"
             /\ last'.api \in DOMAIN lastModelIndices)
            => RotatedFrom(last'.orderedModels, findApi(last'.api)[1].models,
                           (lastModelIndices[last'.api] + 1)
                               % Len(findApi(last'.api)[1].models))]_vars

\* setKeyStrategy has switched the keys back to round-robin while the key
\* cursor of the three-key API stands at its second item and the models
\* keep their own strategy and cursor.
C25_Witness ==
    /\ ValidSet(last, "setKeyStrategy") /\ last.strategy = "round-robin"
    /\ keyStrategy = "round-robin" /\ modelStrategy = "random"
    /\ CursorOf(lastKeyIndices, "api2") = 1
    /\ CursorOf(lastModelIndices, "api1") = 1

----------------------------------------------------------------------------
(* Limits changed between attempts *)

\* The step is a direct checkAndIncrement for the model whose limits the
\* step before it has updated, on a pair that is not frozen.
CheckedAfterUpdate(l, l2) ==
    /\ l.op = "updateLimits" /\ ~l.threw
    /\ Checked(l2) /\ l2.api = l.api /\ l2.model = l.model
    /\ ~l2.calls[1].frozen

\* C26: after updateLimits succeeds, the next checkAndIncrement for that
\* model is evaluated against the merged limits: every window named in the
\* update is reported with the new limit, and the attempt is admitted
\* exactly when the count before it plus one is within the merged limit of
\* every window (a window other than "month" not counting when the call may
\* borrow), so a raised limit admits what was rejected and a limit lowered
\* to the count rejects; updateLimits itself changes no stored counter.
C26_NewLimitsApplyToNextAttempt ==
    [][/\ last'.op = "updateLimits" => counters' = counters
       /\ CheckedAfterUpdate(last, last')
            => /\ \A i \in DOMAIN last.newLimits :
                      last'.calls[1].res.usage[last.newLimits[i].window].limit
                         = last.newLimits[i].limit.v
               /\ last'.calls[1].res.isWithinLimits
                      <=> \A w \in DOMAIN LimitsOf(last') :
                             \/ CounterAt(counters, last'.key, last'.model, w, now) + 1
                                    <= last'.calls[1].res.usage[w].limit
                             \/ last'.allowBorrowing /\ w # "month"]_vars

\* The month limit of m2 was lowered from 2 to 1 with one attempt counted:
\* the next attempt is rejected against the new limit.
C26_Witness ==
    /\ Checked(last) /\ last.model = "m2"
    /\ ~last.calls[1].res.isWithinLimits /\ ~last.calls[1].frozen
    /\ last.calls[1].res.usage["month"].limit = 1
    /\ last.calls[1].res.usage["month"].used = 2
    /\ InitLimits["api1"]["m2"]["month"] = 2
    /\ last.allowBorrowing

----------------------------------------------------------------------------
(* The reading calls *)

\* What every checkAndIncrement of CheckInputs would return and leave in
\* the given state (the calls for a model with an unregistered window throw
\* in every state and are left out).
NextAttempts(ctrs, frz, lims, t) ==
    [in \in {x \in CheckInputs : x[1] = "api1"} |->
        checkAndIncrement(ctrs, frz, lims[in[1]][in[3]], in[2], in[3], in[4], t)]

\* C27: getMetrics and getUsageStats only read: they leave every window
\* counter, metric counter, freeze flag, configured limit and rotation
\* cursor unchanged, and a checkAndIncrement made after them gives the
\* result it would have given before them.
C27_ReadsChangeNothing ==
    [][last'.op \in {"getMetrics", "getUsageStats"}
        => /\ counters' = counters
           /\ metrics' = metrics
           /\ freezes' = freezes
           /\ limits' = limits
           /\ lastKeyIndices' = lastKeyIndices
           /\ lastModelIndices' = lastModelIndices
           /\ NextAttempts(counters', freezes', limits', now')
                 = NextAttempts(counters, freezes, limits, now)]_vars

\* getUsageStats reported a minute count at its limit and a metric count,
\* with both still stored.
C27_Witness ==
    /\ last.op = "getUsageStats" /\ ~last.threw /\ ~last.isNull
    /\ last.usage["minute"].used = 1 /\ last.usage["minute"].remaining = 0
    /\ last.usage["hour"].limit = 0 - 1
    /\ last.counts.success = 1
    /\ CounterAt(counters, "k1", "m1", "minute", now) = 1
    /\ metrics # <<>>

----------------------------------------------------------------------------
(* Where the cursors change *)

\* The cursor table after one round-robin step for the API over n items:
\* the cursor of the API one step on modulo n, from the first item when
\* there was none, and the cursors of the other APIs as they were.
SteppedOnce(after, before, apiName, n) ==
    /\ DOMAIN after = DOMAIN before \cup {apiName}
    /\ after[apiName] = (CursorOf(before, apiName) + 1) % n
    /\ \A a \in DOMAIN before \ {apiName} : after[a] = before[a]

\* C28: the rotation cursor of (apiName, dimension) changes only during a
\* getModel or getBatch call for that apiName while the strategy of that
\* dimension is round-robin, and then by exactly one step modulo N,
\* whether the call returns a pair, returns null or throws after the
\* ordering; every other step (a call for an unknown API, a call under
\* ascending or random, checkAndIncrement, freezeModel, updateLimits) leaves
\* the table of the dimension as it was, and each dimension follows its
\* own strategy.
C28_CursorMovesOnlyInRoundRobinSelection ==
    [][/\ IF Selected(last') /\ keyStrategy = "round-robin"
          THEN SteppedOnce(lastKeyIndices', lastKeyIndices, last'.api,
                           Len(findApi(last'.api)[1].keys))
          ELSE lastKeyIndices' = lastKeyIndices
       /\ IF Selected(last') /\ modelStrategy = "round-robin"
          THEN SteppedOnce(lastModelIndices', lastModelIndices, last'.api,
                           Len(findApi(last'.api)[1].models))
          ELSE lastModelIndices' = lastModelIndices]_vars

\* getModel returned null for api1 with the keys in round-robin and the
\* models in random order: the key cursors of api1 and api3 are set and no
\* model cursor is.
C28_Witness ==
    /\ last.op = "getModel" /\ last.api = "api1" /\ last.isNull
    /\ keyStrategy = "round-robin" /\ modelStrategy = "random"
    /\ "api1" \in DOMAIN lastKeyIndices /\ "api3" \in DOMAIN lastKeyIndices
    /\ lastModelIndices = <<>>
    /\ limits # InitLimits /\ freezes # <<>>

----------------------------------------------------------------------------
(* src/index.js *)

\* C29: in src/index.js, for every window of a model with configured limit
\* L, getModel returns a (key, model) pair at most L times during one
\* lifetime of that window's counter (from its creation to its expiry),
\* under any sequence and any interleaving of getModel calls.
C29_AtMostLimitReturnsPerLifetime ==
    \A k \in DOMAIN counters : counters[k].returns <= limits[k[1]][k[3]][k[4]]

\* The call of caller p returns its pair in this step.
ReturnsPair(p) ==
    /\ p \in DOMAIN inflight
    /\ inflight[p].op = "getModel" /\ inflight[p].stage = "decr"
    /\ inflight'[p].stage = "returned"

\* C30: in src/index.js, after freezeModel({apiName, key, model, duration})
\* completes, a getModel(apiName) call made before duration seconds have
\* elapsed does not return the pair (key, model), whatever the state of the
\* pair's counters was when freezeModel was called.
C30_FrozenPairNotReturned ==
    [][\A p \in Callers :
          ReturnsPair(p)
          => ~(/\ <<Candidate(p).key, Candidate(p).model>> \in inflight[p].barred
               /\ <<Candidate(p).key, Candidate(p).model>> \in DOMAIN freezes
               /\ freezes[<<Candidate(p).key, Candidate(p).model>>] > now)]_vars

----------------------------------------------------------------------------
(* Admissions under concurrent callers *)

\* The checkAndIncrement calls that have returned, as (caller, position in
\* the caller's call), and the record of one.
AttemptsMade == UNION {{<<p, j>> : j \in DOMAIN inflight[p].calls} : p \in DOMAIN inflight}
AttemptOf(a) == inflight[a[1]].calls[a[2]]

\* The counter keys an attempt counted under: one per window of its model.
KeysOfAttempt(c) ==
    {getKey(c.key, c.model, w, c.at) : w \in DOMAIN limits[c.api][c.model]}

\* The attempts that returned isWithinLimits = true and counted under key k.
AdmittedUnder(k) ==
    {a \in AttemptsMade : AttemptOf(a).admitted /\ k \in KeysOfAttempt(AttemptOf(a))}

RejectedAttempts ==
    {a \in AttemptsMade : ~AttemptOf(a).admitted /\ ~AttemptOf(a).frozen}

\* C32: without borrowing and with limits unchanged, a checkAndIncrement
\* attempt on a non-frozen pair is rejected only if, for some window, the
\* requests admitted in the bucket are at least the limit of the window, also
\* with other callers' attempts on the pair in progress: once every call has
\* returned, each rejected attempt has a window whose counter key has as
\* many admitted attempts as its limit (those admitted after the rejection
\* counted as well).
C32_RejectedOnlyWhenFull ==
    Running = {} =>
        \A a \in RejectedAttempts :
            \E w \in DOMAIN limits[AttemptOf(a).api][AttemptOf(a).model] :
                Cardinality(AdmittedUnder(getKey(AttemptOf(a).key, AttemptOf(a).model, w,
                                                 AttemptOf(a).at)))
                    >= limits[AttemptOf(a).api][AttemptOf(a).model][w]

\* C33: in every reachable state every stored window counter is >= 0, also
\* when the bucket of a counter expires between the increment of an attempt
\* and its compensating decrement, and when concurrent callers roll back.
C33_CountersNeverNegative ==
    \A k \in DOMAIN counters : counters[k].val >= 0

\* C34: once freezeModel for (key, model) has completed, no checkAndIncrement
\* for that pair increments a counter or is admitted while the flag exists,
\* an attempt whose isFrozen check ran before the freeze was set and whose
\* increment is issued after it included: no step taken while the flag of a
\* pair exists raises a counter of the pair or returns an admission of it.
C34_FrozenPairNotIncremented ==
    [][/\ \A k \in DOMAIN counters' :
              isFrozen(freezes, k[1], k[2]) => ValueOf(counters', k) <= ValueOf(counters, k)
       /\ \A p \in DOMAIN inflight' :
              \A j \in DOMAIN inflight'[p].calls :
                  (/\ p \in DOMAIN inflight => j \notin DOMAIN inflight[p].calls
                   /\ isFrozen(freezes, inflight'[p].calls[j].key, inflight'[p].calls[j].model))
                      => ~inflight'[p].calls[j].admitted]_vars

----------------------------------------------------------------------------
(* Repeated freezes *)

\* C35 as claimed: a pair stays frozen until the latest expiry among all
\* freezeModel calls made for it, a later freezeModel with a shorter duration
\* never shortens a freeze that is already in place: no freezeModel step
\* moves the expiry of a flag that exists to an earlier time.
C35_FreezeNeverShortened ==
    [][(last'.op = "freezeModel" /\ ~last'.threw
            /\ <<last'.key, last'.model>> \in DOMAIN freezes)
          => freezes'[<<last'.key, last'.model>>] >= freezes[<<last'.key, last'.model>>]
      ]_vars

\* C35 as the code has it: the flag of a pair expires duration seconds after
\* the last freezeModel call made for it, whatever the expiry of the flag
\* that call found in place, later or earlier; the flags of other pairs are
\* untouched, and an attempt is frozen exactly while that flag exists.
C35_LastFreezeSetsExpiry ==
    [][/\ (last'.op = "freezeModel" /\ ~last'.threw)
            => /\ DOMAIN freezes' = DOMAIN freezes \cup {<<last'.key, last'.model>>}
               /\ \A k \in DOMAIN freezes' :
                      freezes'[k] = IF k = <<last'.key, last'.model>>
                                    THEN now + last'.size ELSE freezes[k]
               /\ last'.value = IF <<last'.key, last'.model>> \in DOMAIN freezes
                                THEN freezes[<<last'.key, last'.model>>] ELSE 0
       /\ (last'.op = "checkAndIncrement" /\ ~last'.threw)
            => (last'.calls[1].frozen <=> <<last'.key, last'.model>> \in DOMAIN freezes)
      ]_vars

\* A freezeModel call with duration 30 has found the pair frozen until 60
\* and left it frozen until 30.
C35_Witness ==
    /\ last.op = "freezeModel" /\ ~last.threw
    /\ last.size = 30
    /\ last.value = 60
    /\ now = 0
    /\ freezes[<<last.key, last.model>>] = 30

----------------------------------------------------------------------------
(* Two APIs with a key and a model name in common *)

\* The (key, model) pairs of an API, and the counter keys its evaluations
\* read and write at time t.
PairsOf(apiName) == KeysOf(apiName) \X ModelsOf(apiName)
EvaluatedFor(apiName, t) ==
    UNION {{getKey(pair[1], pair[2], w, t) :
                w \in {x \in DOMAIN limits[apiName][pair[2]] : WindowValid(x)}}
           : pair \in PairsOf(apiName)}

\* The step is made by a call through API a: a round trip of a call in
\* progress for that API, or a freezeModel call with that API name.
ThroughApi(a) ==
    \/ last'.op = "freezeModel" /\ last'.api = a /\ ~last'.threw
    \/ \E p \in DOMAIN inflight : inflight'[p] # inflight[p] /\ inflight[p].api = a

\* C36: admissions and freezes made through one API never change the
\* counters or the freeze flags evaluated for a different API, also when the
\* two APIs list the same key string and a model with the same name: a step
\* of a call through API a leaves the count under every counter key of the
\* pairs of API b, and whether a pair of API b is frozen, as they were.
C36_ApisAreIsolated ==
    [][\A a \in {"api1", "api2"} : \A b \in {"api1", "api2"} \ {a} :
          ThroughApi(a) =>
              /\ \A k \in EvaluatedFor(b, now) :
                     ValueOf(counters', k) = ValueOf(counters, k)
              /\ \A pair \in PairsOf(b) :
                     isFrozen(freezes', pair[1], pair[2])
                         <=> isFrozen(freezes, pair[1], pair[2])]_vars

----------------------------------------------------------------------------
(* One pass over the pairs *)

\* No two entries of a sequence of calls or of results name the same pair.
PairsDistinct(seq) ==
    \A i \in DOMAIN seq : \A j \in DOMAIN seq :
        (seq[i].key = seq[j].key /\ seq[i].model = seq[j].model) => i = j

\* C37: getBatch evaluates each (key, model) pair of the API at most once per
\* call: it makes at most |models| x |keys| evaluations, each of a pair of
\* the API and no pair twice, and returns at most |models| x |keys| tuples,
\* each pair at most once, also when size is larger than that and the pairs
\* have quota left.
C37_BatchEvaluatesPairsOnce ==
    (last.op = "getBatch" /\ findApi(last.api) # <<>>)
    => /\ Len(last.calls) <= PairCount(last)
       /\ PairsDistinct(last.calls)
       /\ \A j \in DOMAIN last.calls :
              <<last.calls[j].key, last.calls[j].model>> \in PairsOf(last.api)
       /\ Len(last.results) <= PairCount(last)
       /\ PairsDistinct(last.results)
       /\ \A j \in DOMAIN last.results :
              <<last.results[j].key, last.results[j].model>> \in PairsOf(last.api)

\* getBatch was called with a size above the number of pairs and returned
\* every pair once, each with quota left in every window after the call.
C37_Witness ==
    /\ last.op = "getBatch" /\ findApi(last.api) # <<>>
    /\ last.size > PairCount(last)
    /\ Len(last.results) = PairCount(last)
    /\ \A j \in DOMAIN last.results :
           \A w \in DOMAIN limits[last.api][last.results[j].model] :
               ValueOf(counters, getKey(last.results[j].key, last.results[j].model, w, now))
                   < limits[last.api][last.results[j].model][w]

----------------------------------------------------------------------------
(* Rounds of getModel *)

\* How often getModel has returned a pair where getModel is the only call
\* made and every pair is admissible: the count of the pair's longest window.
AdmissionsOf(apiName, pair) ==
    ValueOf(counters, getKey(pair[1], pair[2],
                             LongestWindow(limits[apiName][pair[2]]), now))

\* The getModel calls made for an API so far: each has returned one pair.
RECURSIVE SumOfAdmissions(_, _)
SumOfAdmissions(apiName, pairs) ==
    IF pairs = {} THEN 0
    ELSE LET pair == CHOOSE x \in pairs : TRUE
         IN  AdmissionsOf(apiName, pair) + SumOfAdmissions(apiName, pairs \ {pair})

\* C38: with the round-robin strategy for both keys and models and every
\* pair admissible, every (key, model) pair of the API is returned by some
\* getModel call within |keys| x |models| consecutive calls, whatever the
\* sizes of the lists: once |keys| x |models| calls have been made for an
\* API, each of its pairs has been returned.
C38_EveryPairWithinOneRound ==
    (keyStrategy = "round-robin" /\ modelStrategy = "round-robin")
    => \A apiName \in {"api1"} :
          SumOfAdmissions(apiName, PairsOf(apiName))
                >= Cardinality(PairsOf(apiName))
            => \A pair \in PairsOf(apiName) : AdmissionsOf(apiName, pair) >= 1
====
